---- MODULE Spec2Model ----
(***************************************************************************)
(* Model of the tender pipeline of liticia-backend: duplicate detection    *)
(* and merge (app/services/duplicate_detection_service.py) and the         *)
(* ingestion of scraped records into the store                             *)
(* (app/services/licitacion_service.py, app/tasks/scraping_tasks.py,       *)
(* scraper_auto.py).                                                       *)
(*                                                                         *)
(* Python values are tagged tuples, so that values of different Python     *)
(* types are different TLA+ values that can still be compared:             *)
(*   <<"None">>, <<"missing">> (key absent from a dict), <<"num", n>>,     *)
(*   <<"str", chars>>, <<"datetime", t>>, <<"list", ref>>.                 *)
(* A text is a sequence of one-character strings.  A datetime is a number  *)
(* of half days, so that gaps of a non-whole number of days exist.         *)
(* A similarity score is an exact fraction <<num, den>> with den > 0.      *)
(***************************************************************************)
EXTENDS Integers, Sequences, FiniteSets, TLC

VARIABLES
    \* the running function and its position
    pc,
    \* son_duplicadas(licitacion1, licitacion2) and its result
    licitacion1, licitacion2, es_duplicada,
    \* the list objects (documentos, fuentes_adicionales) the dicts refer to,
    \* and their contents when the call started
    heap, heap0,
    \* fusionar_licitaciones(licitacion_principal, licitacion_secundaria)
    licitacion_principal, licitacion_secundaria, fusionada,
    \* detectar_duplicados_en_lista(licitaciones): its locals, the index i of
    \* the outer loop, and for each record of licitaciones_unicas the index of
    \* its anchor and the list `duplicados` folded into it
    licitaciones, licitaciones_ordenadas, licitaciones_unicas,
    indices_procesados, i, grupos,
    \* the licitaciones table as committed, and as the session of the running
    \* task sees it (flushed rows and the attributes set on them); the
    \* primary keys of the rows with attribute changes not yet flushed
    almacen, sesion, sucios,
    \* an ingestion run: its counters, the dict in hand, the row the lookup
    \* found and what update() returned
    nuevas, actualizadas, lic_data, existing, updated,
    \* the time of datetime.now() and of the database's now()
    reloj,
    \* for every row, the dict it was created from (as the adapter yielded
    \* it) and the row as create() returned it
    creada,
    \* the dict in hand as the adapter yielded it, and actualizadas before
    \* the record was processed
    lic_data0, actualizadas0,
    \* _procesar_licitacion_con_ia(licitacion, documentos, db): its argument
    \* documentos and its locals docs_texto and analisis
    documentos, docs_texto, analisis,
    \* whether the session's transaction still takes statements, and the time
    \* at which the run started
    sesion_activa, inicio,
    \* scraper_auto.main: what is left to process of the two lists it
    \* materialises
    licitaciones_placsp, licitaciones_gencat,
    \* a source adapter: which class it is, the dict es_licitacion_tic is
    \* called with and what the call did
    scraper, licitacion_tic, es_tic,
    \* scrape_all: the response to its last request, the number of requests
    \* made and the records yielded to the consumer
    pagina, page, entregadas,
    \* scrape_recent: the records scrape_all has still to yield, cutoff_date,
    \* the UTC offset of the clock of datetime.now(), and the list it returns
    stream, cutoff_date, utcoffset, recientes,
    \* celery beat: the time of the week, the messages sent and not yet taken,
    \* the runs a worker process is executing, and the worker's --concurrency
    ahora, cola, ejecutando, concurrency

varsBeat == <<ahora, cola, ejecutando, concurrency>>
varsDup == <<licitacion1, licitacion2, es_duplicada>>
varsFusion == <<licitacion_principal, licitacion_secundaria, fusionada>>
varsHeap == <<heap, heap0>>
varsDeteccion ==
    <<licitaciones, licitaciones_ordenadas, licitaciones_unicas,
      indices_procesados, i, grupos>>
varsIngesta ==
    <<almacen, sesion, sucios, nuevas, actualizadas, lic_data,
      existing, updated, reloj, creada, lic_data0, actualizadas0,
      documentos, docs_texto, analisis, sesion_activa, inicio,
      licitaciones_placsp, licitaciones_gencat>>
varsScraper ==
    <<scraper, licitacion_tic, es_tic, pagina, page, entregadas, stream,
      cutoff_date, utcoffset, recientes>>
vars ==
    <<pc, varsDup, varsBeat, varsHeap, varsFusion, varsDeteccion, varsIngesta,
      varsScraper>>

--------------------------------------------------------------------------
(* Python values *)

None == <<"None">>
Missing == <<"missing">>
Num(n) == <<"num", n>>
Str(s) == <<"str", s>>
Dt(t) == <<"datetime", t>>
ListRef(r) == <<"list", r>>

IsNum(v) == v[1] = "num"
IsStr(v) == v[1] = "str"
IsDt(v) == v[1] = "datetime"

\* dict.get(key): None when the key is absent
Get(d, k) == IF d[k] = Missing THEN None ELSE d[k]
\* dict.get(key, default): the default only when the key is absent
GetDefault(d, k, default) == IF d[k] = Missing THEN default ELSE d[k]

--------------------------------------------------------------------------
(* Exact fractions for the float scores *)

Frac(n, d) == IF d < 0 THEN <<-n, -d>> ELSE <<n, d>>
FZero == <<0, 1>>
FOne == <<1, 1>>
FLe(x, y) == x[1] * y[2] <= y[1] * x[2]
FGe(x, y) == FLe(y, x)
FEq(x, y) == x[1] * y[2] = y[1] * x[2]
FMin(x, y) == IF FLe(x, y) THEN x ELSE y
FSub(x, y) == <<x[1] * y[2] - y[1] * x[2], x[2] * y[2]>>
Abs(n) == IF n < 0 THEN -n ELSE n
Max(m, n) == IF m >= n THEN m ELSE n

--------------------------------------------------------------------------
(* Thresholds of DuplicateDetectionService *)

UMBRAL_EXPEDIENTE == <<8, 10>>
UMBRAL_TITULO == <<85, 100>>
UMBRAL_PRESUPUESTO == <<5, 100>>
UMBRAL_FECHA == 7
UMBRAL_SIM_FECHA == <<7, 10>>
\* a datetime counts half days
UnidadesPorDia == 2

--------------------------------------------------------------------------
(* str.lower().strip() and difflib.SequenceMatcher(None, t1, t2).ratio() *)

Lower(c) ==
    CASE c = "A" -> "a"
      [] c = "B" -> "b"
      [] c = "C" -> "c"
      [] OTHER -> c

LowerText(s) == [k \in 1..Len(s) |-> Lower(s[k])]

RECURSIVE LStrip(_)
LStrip(s) == IF s # <<>> /\ Head(s) = " " THEN LStrip(Tail(s)) ELSE s

RECURSIVE RStrip(_)
RStrip(s) ==
    IF s # <<>> /\ s[Len(s)] = " " THEN RStrip(SubSeq(s, 1, Len(s) - 1)) ELSE s

Normalizar(s) == RStrip(LStrip(LowerText(s)))

\* length of the common run of a and b that starts at a[ai+1], b[bj+1]
RECURSIVE RunLen(_, _, _, _, _, _)
RunLen(a, b, ai, bj, ahi, bhi) ==
    IF ai < ahi /\ bj < bhi /\ a[ai + 1] = b[bj + 1]
    THEN 1 + RunLen(a, b, ai + 1, bj + 1, ahi, bhi)
    ELSE 0

\* find_longest_match: the longest block; of those the earliest in a, then in b
LongestMatch(a, b, alo, ahi, blo, bhi) ==
    LET Pos == (alo..(ahi - 1)) \X (blo..(bhi - 1))
        Size(p) == RunLen(a, b, p[1], p[2], ahi, bhi)
    IN IF Pos = {} THEN <<alo, blo, 0>>
       ELSE LET best == CHOOSE p \in Pos :
                    \A q \in Pos :
                        \/ Size(q) < Size(p)
                        \/ /\ Size(q) = Size(p)
                           /\ \/ p[1] < q[1]
                              \/ p[1] = q[1] /\ p[2] <= q[2]
            IN <<best[1], best[2], Size(best)>>

\* get_matching_blocks: total size of the blocks, found left and right of each
RECURSIVE Matches(_, _, _, _, _, _)
Matches(a, b, alo, ahi, blo, bhi) ==
    LET m == LongestMatch(a, b, alo, ahi, blo, bhi)
        ai == m[1]
        bj == m[2]
        k == m[3]
    IN IF k = 0 THEN 0
       ELSE k
            + (IF alo < ai /\ blo < bj THEN Matches(a, b, alo, ai, blo, bj) ELSE 0)
            + (IF ai + k < ahi /\ bj + k < bhi
               THEN Matches(a, b, ai + k, ahi, bj + k, bhi) ELSE 0)

\* ratio(): 2.0 * matches / (len(a) + len(b)), 1.0 when both are empty
Ratio(a, b) ==
    IF Len(a) + Len(b) = 0 THEN FOne
    ELSE Frac(2 * Matches(a, b, 0, Len(a), 0, Len(b)), Len(a) + Len(b))

--------------------------------------------------------------------------
(* The four similarity scores *)

\* `not texto`: None and the empty string are falsy
TextoVacio(texto) == texto = None \/ texto = Str(<<>>)

\* the texts of the records of this model
Txt(s) == Str(s)
EXP_A == Txt(<<"a", "b", "c", "1", "2">>)
EXP_B == Txt(<<"a", "b", "c", "1", "3">>)
TIT_A == Txt(<<"a", "b", "c", "d", "e", "f", "g">>)
TIT_B == Txt(<<"A", "B", "C", "d", "e", "f", "x", " ">>)
TIT_C == Txt(<<"a", "b", "c", "d", "e", "x">>)
Textos == {None, Str(<<>>), EXP_A, EXP_B, TIT_A, TIT_B, TIT_C}

\* _similitud_texto over the texts of the model (@@ makes TLC tabulate it once)
SimilitudTexto ==
    [p \in Textos \X Textos |->
        IF TextoVacio(p[1]) \/ TextoVacio(p[2]) THEN FZero
        ELSE Ratio(Normalizar(p[1][2]), Normalizar(p[2][2]))] @@ <<>>

similitud_texto(texto1, texto2) == SimilitudTexto[<<texto1, texto2>>]

\* the difference is taken over max(presupuesto1, presupuesto2)
similitud_presupuesto_sobre_el_primero(presupuesto1, presupuesto2) ==
    IF presupuesto1 = None \/ presupuesto2 = None THEN FZero
    ELSE IF presupuesto1[2] = 0 \/ presupuesto2[2] = 0 THEN FZero
    ELSE LET diferencia == Frac(Abs(presupuesto1[2] - presupuesto2[2]),
                                presupuesto1[2])
         IN FSub(FOne, FMin(diferencia, FOne))
similitud_presupuesto(presupuesto1, presupuesto2) ==
    IF presupuesto1 = None \/ presupuesto2 = None THEN FZero
    ELSE IF presupuesto1[2] = 0 \/ presupuesto2[2] = 0 THEN FZero
    ELSE LET diferencia == Frac(Abs(presupuesto1[2] - presupuesto2[2]),
                                Max(presupuesto1[2], presupuesto2[2]))
         IN FSub(FOne, FMin(diferencia, FOne))

\* timedelta.days: the floor of the gap in days
DiasDe(delta) == delta \div UnidadesPorDia

similitud_fecha(fecha1, fecha2) ==
    IF fecha1 = None \/ fecha2 = None THEN FZero
    ELSE LET diferencia_dias == Abs(DiasDe(fecha1[2] - fecha2[2]))
         IN IF diferencia_dias > UMBRAL_FECHA THEN FZero
            ELSE FSub(FOne, Frac(diferencia_dias, UMBRAL_FECHA))

--------------------------------------------------------------------------
(* son_duplicadas *)

misma_fuente_nunca(l1, l2) == FALSE
misma_fuente(l1, l2) == Get(l1, "fuente") = Get(l2, "fuente")

sim_expediente(l1, l2) ==
    similitud_texto(GetDefault(l1, "expediente", Str(<<>>)),
                    GetDefault(l2, "expediente", Str(<<>>)))
sim_titulo(l1, l2) ==
    similitud_texto(GetDefault(l1, "titulo", Str(<<>>)),
                    GetDefault(l2, "titulo", Str(<<>>)))
sim_presupuesto(l1, l2) ==
    similitud_presupuesto(Get(l1, "presupuesto_base"), Get(l2, "presupuesto_base"))
sim_fecha(l1, l2) ==
    similitud_fecha(Get(l1, "fecha_publicacion"), Get(l2, "fecha_publicacion"))

criterio_expediente(l1, l2) == FGe(sim_expediente(l1, l2), UMBRAL_EXPEDIENTE)
criterio_titulo_presupuesto(l1, l2) ==
    /\ FGe(sim_titulo(l1, l2), UMBRAL_TITULO)
    /\ FGe(sim_presupuesto(l1, l2), FSub(FOne, UMBRAL_PRESUPUESTO))
criterio_titulo_fecha(l1, l2) ==
    /\ FGe(sim_titulo(l1, l2), UMBRAL_TITULO)
    /\ FGe(sim_fecha(l1, l2), UMBRAL_SIM_FECHA)

criterios_cumplidos(l1, l2) ==
    (IF criterio_expediente(l1, l2) THEN 1 ELSE 0)
    + (IF criterio_titulo_presupuesto(l1, l2) THEN 1 ELSE 0)
    + (IF criterio_titulo_fecha(l1, l2) THEN 1 ELSE 0)

criterios_suficientes_uno(n) == n >= 1
criterios_suficientes(n) == n >= 2

son_duplicadas(l1, l2) ==
    IF misma_fuente(l1, l2) THEN FALSE
    ELSE criterios_suficientes(criterios_cumplidos(l1, l2))

--------------------------------------------------------------------------
(* Inputs of the pairwise comparison *)

FuentesDup == {Str("PLACSP"), Str("GENCAT"), Missing}
ExpedientesDup == {None, EXP_A, EXP_B}
TitulosDup == {TIT_A, TIT_B, TIT_C}
PresupuestosDup == {None, Num(0), Num(19), Num(20)}
FechasDup == {None, Dt(0), Dt(5), Dt(17)}

LicitacionesDup ==
    [fuente : FuentesDup, expediente : ExpedientesDup, titulo : TitulosDup,
     presupuesto_base : PresupuestosDup, fecha_publicacion : FechasDup]

\* the variables of the functions that are not running
SinDup == licitacion1 = None /\ licitacion2 = None /\ es_duplicada = FALSE
SinBeat == ahora = 0 /\ cola = <<>> /\ ejecutando = {} /\ concurrency = 0
SinFusion ==
    licitacion_principal = None /\ licitacion_secundaria = None /\ fusionada = None
SinHeap == heap = <<>> /\ heap0 = <<>>
SinDeteccion ==
    /\ licitaciones = <<>> /\ licitaciones_ordenadas = <<>>
    /\ licitaciones_unicas = <<>> /\ indices_procesados = {}
    /\ i = 0 /\ grupos = <<>>
SinScraper ==
    /\ scraper = "" /\ licitacion_tic = None /\ es_tic = ""
    /\ pagina = None /\ page = 0 /\ entregadas = <<>>
    /\ stream = <<>> /\ cutoff_date = 0 /\ utcoffset = 0 /\ recientes = <<>>
SinIngesta ==
    /\ almacen = <<>> /\ sesion = <<>> /\ sucios = {}
    /\ nuevas = 0 /\ actualizadas = 0
    /\ lic_data = None /\ existing = None /\ updated = ""
    /\ reloj = 0 /\ creada = <<>>
    /\ lic_data0 = None /\ actualizadas0 = 0
    /\ documentos = <<>> /\ docs_texto = None /\ analisis = None
    /\ sesion_activa = TRUE /\ inicio = 0
    /\ licitaciones_placsp = <<>> /\ licitaciones_gencat = <<>>

InitDup ==
    /\ licitacion1 \in LicitacionesDup
    /\ licitacion2 \in LicitacionesDup
    /\ es_duplicada = FALSE
    /\ pc = "son_duplicadas"
    /\ SinBeat /\ SinHeap /\ SinFusion /\ SinDeteccion /\ SinIngesta /\ SinScraper

SonDuplicadas ==
    /\ pc = "son_duplicadas"
    /\ es_duplicada' = son_duplicadas(licitacion1, licitacion2)
    /\ pc' = "fin"
    /\ UNCHANGED <<licitacion1, licitacion2, varsBeat, varsHeap, varsFusion, varsDeteccion, varsIngesta, varsScraper>>

NextDup == SonDuplicadas
SpecDup == InitDup /\ [][NextDup]_vars

--------------------------------------------------------------------------
(* Claims about son_duplicadas *)

FuenteDe(l) == IF l.fuente = Missing THEN None ELSE l.fuente

\* C1: two records with equal source tags are never duplicates, whatever
\* their reference code, title, budget and publication date.
C1_MismaFuenteNuncaDuplicadas ==
    (pc = "fin" /\ FuenteDe(licitacion1) = FuenteDe(licitacion2))
        => es_duplicada = FALSE

\* C1 witness: same source, all four compared fields identical and filled.
C1_Witness ==
    /\ pc = "fin"
    /\ licitacion1 = licitacion2
    /\ licitacion1.fuente = Str("GENCAT")
    /\ licitacion1.expediente = EXP_A
    /\ licitacion1.titulo = TIT_A
    /\ licitacion1.presupuesto_base = Num(20)
    /\ licitacion1.fecha_publicacion = Dt(5)
    /\ es_duplicada = FALSE

\* the three criteria as the specification words them
C2_Criterio1 == FGe(sim_expediente(licitacion1, licitacion2), <<80, 100>>)
C2_Criterio2 ==
    /\ FGe(sim_titulo(licitacion1, licitacion2), <<85, 100>>)
    /\ FGe(sim_presupuesto(licitacion1, licitacion2), <<95, 100>>)
C2_Criterio3 ==
    /\ FGe(sim_titulo(licitacion1, licitacion2), <<85, 100>>)
    /\ FGe(sim_fecha(licitacion1, licitacion2), <<70, 100>>)

\* C2: records of different sources are duplicates exactly when at least two
\* of the three criteria hold.
C2_DosDeTres ==
    (pc = "fin" /\ FuenteDe(licitacion1) # FuenteDe(licitacion2))
        => (es_duplicada <=> \/ C2_Criterio1 /\ C2_Criterio2
                             \/ C2_Criterio1 /\ C2_Criterio3
                             \/ C2_Criterio2 /\ C2_Criterio3)

\* C2 witness: identical reference codes, dissimilar titles, different
\* sources: criterion 1 alone holds and the pair is not a duplicate.
C2_Witness ==
    /\ pc = "fin"
    /\ FuenteDe(licitacion1) # FuenteDe(licitacion2)
    /\ licitacion1.expediente = EXP_A /\ licitacion2.expediente = EXP_A
    /\ licitacion1.titulo = TIT_A /\ licitacion2.titulo = TIT_C
    /\ C2_Criterio1 /\ ~C2_Criterio2 /\ ~C2_Criterio3
    /\ es_duplicada = FALSE

--------------------------------------------------------------------------
(* Tender dicts and the list objects they refer to *)

\* the fields fusionar_licitaciones may complete from the secondary
CAMPOS ==
    <<"resumen", "organo_contratacion", "tipo_contrato", "procedimiento",
      "presupuesto_base", "valor_estimado", "fecha_limite", "cpv",
      "lugar_ejecucion">>
CamposSet == {CAMPOS[k] : k \in 1..Len(CAMPOS)}
ClavesIdentidad ==
    {"id_licitacion", "fuente", "expediente", "titulo", "url", "fecha_publicacion"}
ClavesLista == {"documentos", "fuentes_adicionales"}
Claves == ClavesIdentidad \cup ClavesLista \cup CamposSet

\* a list written out in an input dict, before it is an object of the heap
Lit(seq) == <<"lit", seq>>

\* the dicts of a batch as objects: the record at position k owns the list
\* objects 2k-1 (documentos) and 2k (fuentes_adicionales)
RefDocs(k) == 2 * k - 1
RefFuentes(k) == 2 * k
CargarLic(lit, k) ==
    [c \in Claves |->
        IF c = "documentos" /\ lit[c] # Missing THEN ListRef(RefDocs(k))
        ELSE IF c = "fuentes_adicionales" /\ lit[c] # Missing
             THEN ListRef(RefFuentes(k))
        ELSE lit[c]]
CargarLics(lits) == [k \in 1..Len(lits) |-> CargarLic(lits[k], k)]
CargarHeap(lits) ==
    [r \in 1..(2 * Len(lits)) |->
        LET k == (r + 1) \div 2
            c == IF r = RefDocs(k) THEN "documentos" ELSE "fuentes_adicionales"
        IN IF lits[k][c] = Missing THEN <<>> ELSE lits[k][c][2]]

\* the contents of the list a dict holds under key c (no list: empty)
Lista(h, lic, c) == IF lic[c] = Missing THEN <<>> ELSE h[lic[c][2]]

\* Python truthiness of a field value
Truthy(v) == v \notin {None, Missing, Num(0), Str(<<>>)}

--------------------------------------------------------------------------
(* fusionar_licitaciones *)

\* the entry appended to fuentes_adicionales
EntradaFuente(lic) ==
    [fuente |-> Get(lic, "fuente"),
     id_licitacion |-> Get(lic, "id_licitacion"),
     url |-> Get(lic, "url")]

RECURSIVE Filtrar(_, _)
\* the documents of docs whose name is not in nombres, in order
Filtrar(docs, nombres) ==
    IF docs = <<>> THEN <<>>
    ELSE IF Head(docs).nombre \notin nombres
         THEN <<Head(docs)>> \o Filtrar(Tail(docs), nombres)
         ELSE Filtrar(Tail(docs), nombres)

\* `if not fusionada.get(campo) and licitacion_secundaria.get(campo)`
completar(valor, valor_secundaria) ==
    IF ~Truthy(valor) /\ Truthy(valor_secundaria) THEN valor_secundaria ELSE valor

RECURSIVE CompletarCampos(_, _, _)
\* the loop over CAMPOS from position k on
CompletarCampos(f, secundaria, k) ==
    IF k > Len(CAMPOS) THEN f
    ELSE CompletarCampos(
            [f EXCEPT ![CAMPOS[k]] = completar(f[CAMPOS[k]], secundaria[CAMPOS[k]])],
            secundaria, k + 1)

\* fuentes_adicionales of the merged dict: the principal's list object, or a
\* new list, with the secondary's entry appended
anotar_fuente_delante(lista, entrada) == <<entrada>> \o lista
anotar_fuente(lista, entrada) == Append(lista, entrada)

\* documentos of the merged dict: the principal's list object, or a new
\* list, with the secondary's documents of a new name appended
unir_documentos_todos(docs_principal, docs_secundaria) ==
    docs_principal \o docs_secundaria
unir_documentos(docs_principal, docs_secundaria) ==
    LET nombres_existentes ==
            {docs_principal[k].nombre : k \in 1..Len(docs_principal)}
    IN docs_principal \o Filtrar(docs_secundaria, nombres_existentes)

\* the merged dict and the heap after the call
fusionar_licitaciones(principal, secundaria, h) ==
    LET nueva_fa == principal.fuentes_adicionales = Missing
        h1 == IF nueva_fa THEN Append(h, <<>>) ELSE h
        ref_fa == IF nueva_fa THEN Len(h1) ELSE principal.fuentes_adicionales[2]
        h2 == [h1 EXCEPT ![ref_fa] = anotar_fuente(@, EntradaFuente(secundaria))]
        nueva_docs == principal.documentos = Missing
        h3 == IF nueva_docs THEN Append(h2, <<>>) ELSE h2
        ref_docs == IF nueva_docs THEN Len(h3) ELSE principal.documentos[2]
        docs_secundaria == Lista(h3, secundaria, "documentos")
        h4 == [h3 EXCEPT ![ref_docs] = unir_documentos(@, docs_secundaria)]
        copia == [principal EXCEPT !.fuentes_adicionales = ListRef(ref_fa),
                                   !.documentos = ListRef(ref_docs)]
    IN [lic |-> CompletarCampos(copia, secundaria, 1), heap |-> h4]

--------------------------------------------------------------------------
(* Inputs of fusionar_licitaciones *)

\* how many of the nine fields differ from the rest of their dict
MaxCampos == 1
\* the longest document list of an input dict
MaxDocs == 2
\* the longest additional-source list an input principal already has
MaxFuentesPrevias == 1

TipoCampo(c) ==
    IF c \in {"presupuesto_base", "valor_estimado"} THEN "num"
    ELSE IF c = "fecha_limite" THEN "fecha" ELSE "texto"

VAL_P == Str(<<"p">>)
VAL_S == Str(<<"s">>)
ValoresPrincipal(c) ==
    CASE TipoCampo(c) = "num" -> {Missing, None, Num(0), Num(30000)}
      [] TipoCampo(c) = "fecha" -> {Missing, None, Dt(3)}
      [] OTHER -> {Missing, None, Str(<<>>), VAL_P}
ValoresSecundaria(c) ==
    CASE TipoCampo(c) = "num" -> {Missing, None, Num(0), Num(30000), Num(50000)}
      [] TipoCampo(c) = "fecha" -> {Missing, None, Dt(3), Dt(4)}
      [] OTHER -> {Missing, None, Str(<<>>), VAL_P, VAL_S}
\* a filled value of the type of field c
Lleno(c, texto, num, fecha) ==
    CASE TipoCampo(c) = "num" -> Num(num)
      [] TipoCampo(c) = "fecha" -> Dt(fecha)
      [] OTHER -> texto

DOC_A1 == [nombre |-> Str(<<"a">>), tipo |-> Str("pliego_tecnico"), url |-> Str("u1")]
DOC_A2 == [nombre |-> Str(<<"a">>), tipo |-> Str("anexo"), url |-> Str("u2")]
DOC_B == [nombre |-> Str(<<"b">>), tipo |-> Str("pliego_administrativo"), url |-> Str("u3")]
Documentos == {DOC_A1, DOC_A2, DOC_B}

FUENTE_PREVIA_1 ==
    [fuente |-> Str("OTRA"), id_licitacion |-> Str("O-7"), url |-> Str("u7")]
FUENTE_PREVIA_2 == [fuente |-> None, id_licitacion |-> Str("X-8"), url |-> None]
FuentesPrevias == {FUENTE_PREVIA_1, FUENTE_PREVIA_2}

\* the sequences over S of length at most n
SeqHasta(S, n) == UNION {[1..m -> S] : m \in 0..n}

\* the fields other than the nine, of a principal and of a secondary
IdentidadPrincipal ==
    [id_licitacion |-> Str("P-1"), fuente |-> Str("PLACSP"),
     expediente |-> EXP_A, titulo |-> Str(<<"A">>), url |-> Str("up"),
     fecha_publicacion |-> Dt(0)]

\* an input dict from its identity fields, its nine fields and its lists
Dict(identidad, campos, docs, fuentes) ==
    [c \in Claves |->
        IF c \in ClavesIdentidad THEN identidad[c]
        ELSE IF c = "documentos" THEN docs
        ELSE IF c = "fuentes_adicionales" THEN fuentes
        ELSE campos[c]]

ListasDocs == {Missing} \cup {Lit(d) : d \in SeqHasta(Documentos, MaxDocs)}
ListasFuentes ==
    {Missing} \cup {Lit(f) : f \in SeqHasta(FuentesPrevias, MaxFuentesPrevias)}

\* the nine fields of both dicts: at most MaxCampos fields take any value of
\* their type; the others are all absent, or all filled
CamposDeAmbas ==
    {<<[c \in CamposSet |-> IF c \in S THEN vp[c] ELSE d[1][c]],
       [c \in CamposSet |-> IF c \in S THEN vs[c] ELSE d[2][c]]>> :
        <<S, vp, vs, d>> \in
            {t \in UNION {
                    {S} \X [S -> UNION {ValoresPrincipal(c) : c \in CamposSet}]
                        \X [S -> UNION {ValoresSecundaria(c) : c \in CamposSet}]
                        \X {<<[c \in CamposSet |-> Missing],
                              [c \in CamposSet |-> Missing]>>,
                            <<[c \in CamposSet |-> Lleno(c, VAL_P, 30000, 3)],
                              [c \in CamposSet |-> Lleno(c, VAL_S, 50000, 4)]>>} :
                    S \in {T \in SUBSET CamposSet : Cardinality(T) <= MaxCampos}} :
                \A c \in t[1] : /\ t[2][c] \in ValoresPrincipal(c)
                                /\ t[3][c] \in ValoresSecundaria(c)}}

CamposPorDefecto ==
    <<[c \in CamposSet |-> IF TipoCampo(c) = "num" THEN None ELSE VAL_P],
      [c \in CamposSet |-> Lleno(c, VAL_S, 50000, 4)]>>

SECUNDARIA_GENCAT ==
    [id_licitacion |-> Str("GENCAT-1"), fuente |-> Str("GENCAT"),
     expediente |-> EXP_B, titulo |-> Str(<<"B">>), url |-> Str("ug"),
     fecha_publicacion |-> Dt(5)]
SECUNDARIA_SIN_FUENTE ==
    [id_licitacion |-> Str("X-2"), fuente |-> Missing,
     expediente |-> None, titulo |-> None, url |-> Missing,
     fecha_publicacion |-> Missing]

\* the two input dicts, written out: the nine fields vary, or the lists do
EntradasFusion ==
    {<<Dict(IdentidadPrincipal, cs[1], dp, fp), Dict(ids, cs[2], ds, Missing)>> :
        <<cs, dp, ds, fp, ids>> \in
            (CamposDeAmbas \X {Lit(<<DOC_A1>>)} \X {Lit(<<DOC_A2, DOC_B>>)}
                \X {Missing} \X {SECUNDARIA_GENCAT})
            \cup ({CamposPorDefecto} \X ListasDocs \X ListasDocs
                \X ListasFuentes \X {SECUNDARIA_GENCAT, SECUNDARIA_SIN_FUENTE})}

InitFusion ==
    /\ \E e \in EntradasFusion :
        /\ licitacion_principal = CargarLics(e)[1]
        /\ licitacion_secundaria = CargarLics(e)[2]
        /\ heap = CargarHeap(e)
    /\ heap0 = heap
    /\ fusionada = None
    /\ pc = "fusionar_licitaciones"
    /\ SinDup /\ SinBeat /\ SinDeteccion /\ SinIngesta /\ SinScraper

FusionarLicitaciones ==
    /\ pc = "fusionar_licitaciones"
    /\ LET r == fusionar_licitaciones(licitacion_principal, licitacion_secundaria, heap)
       IN fusionada' = r.lic /\ heap' = r.heap
    /\ pc' = "fin_fusion"
    /\ UNCHANGED <<licitacion_principal, licitacion_secundaria, heap0, varsDup, varsBeat,
                   varsDeteccion, varsIngesta, varsScraper>>

NextFusion == FusionarLicitaciones
SpecFusion == InitFusion /\ [][NextFusion]_vars

--------------------------------------------------------------------------
(* detectar_duplicados_en_lista *)

PRIORIDAD_PLACSP == 0
PRIORIDAD_GENCAT == 1
PRIORIDAD_OTRAS == 999

\* prioridad_fuentes.get(x.get('fuente', ''), 999)
prioridad(lic) ==
    CASE lic.fuente = Str("PLACSP") -> PRIORIDAD_PLACSP
      [] lic.fuente = Str("GENCAT") -> PRIORIDAD_GENCAT
      [] OTHER -> PRIORIDAD_OTRAS

RECURSIVE Insertar(_, _)
\* x put into the sorted s behind every record whose key is not greater
Insertar(s, x) ==
    IF s = <<>> THEN <<x>>
    ELSE IF prioridad(Head(s)) <= prioridad(x)
         THEN <<Head(s)>> \o Insertar(Tail(s), x)
         ELSE <<x>> \o s

RECURSIVE OrdenEstable(_, _)
OrdenEstable(hecho, resto) ==
    IF resto = <<>> THEN hecho
    ELSE OrdenEstable(Insertar(hecho, Head(resto)), Tail(resto))

\* sorted(licitaciones, key=prioridad): a stable sort
sin_ordenar(lics) == lics
ordenar(lics) == OrdenEstable(<<>>, lics)

RECURSIVE Duplicados_sin_reclamar(_, _, _, _)
\* the inner loop without `if j in indices_procesados: continue`
Duplicados_sin_reclamar(ordenadas, a, j, procesados) ==
    IF j > Len(ordenadas) THEN <<>>
    ELSE IF son_duplicadas(ordenadas[a], ordenadas[j])
         THEN <<j>> \o Duplicados_sin_reclamar(ordenadas, a, j + 1, procesados)
         ELSE Duplicados_sin_reclamar(ordenadas, a, j + 1, procesados)

RECURSIVE Duplicados(_, _, _, _)
\* the inner loop from index j on: the indices of the records after the
\* anchor a, not yet processed, that son_duplicadas(anchor, record) accepts
Duplicados(ordenadas, a, j, procesados) ==
    IF j > Len(ordenadas) THEN <<>>
    ELSE IF j \notin procesados /\ son_duplicadas(ordenadas[a], ordenadas[j])
         THEN <<j>> \o Duplicados(ordenadas, a, j + 1, procesados)
         ELSE Duplicados(ordenadas, a, j + 1, procesados)

\* the fold cut short after the first duplicate
FusionarPrimera(lic_fusionada, idxs, ordenadas, h) ==
    IF idxs = <<>> THEN [lic |-> lic_fusionada, heap |-> h]
    ELSE LET r == fusionar_licitaciones(lic_fusionada, ordenadas[Head(idxs)], h)
         IN [lic |-> r.lic, heap |-> r.heap]

RECURSIVE FusionarTodas(_, _, _, _)
\* the fold of fusionar_licitaciones over the indices idxs
FusionarTodas(lic_fusionada, idxs, ordenadas, h) ==
    IF idxs = <<>> THEN [lic |-> lic_fusionada, heap |-> h]
    ELSE LET r == fusionar_licitaciones(lic_fusionada, ordenadas[Head(idxs)], h)
         IN FusionarTodas(r.lic, Tail(idxs), ordenadas, r.heap)

Rango(seq) == {seq[k] : k \in 1..Len(seq)}

ListaVacia ==
    /\ pc = "detectar_duplicados_en_lista"
    /\ licitaciones = <<>>
    /\ licitaciones_unicas' = <<>>
    /\ pc' = "fin_deteccion"
    /\ UNCHANGED <<licitaciones, licitaciones_ordenadas, indices_procesados, i,
                   grupos, varsHeap, varsDup, varsBeat, varsFusion, varsIngesta, varsScraper>>

Ordenar ==
    /\ pc = "detectar_duplicados_en_lista"
    /\ licitaciones # <<>>
    /\ licitaciones_ordenadas' = ordenar(licitaciones)
    /\ licitaciones_unicas' = <<>>
    /\ indices_procesados' = {}
    /\ i' = 1
    /\ pc' = "bucle"
    /\ UNCHANGED <<licitaciones, grupos, varsHeap, varsDup, varsBeat, varsFusion, varsIngesta, varsScraper>>

\* `if i in indices_procesados: continue`
SaltarProcesado ==
    /\ pc = "bucle"
    /\ i <= Len(licitaciones_ordenadas)
    /\ i \in indices_procesados
    /\ i' = i + 1
    /\ UNCHANGED <<pc, licitaciones, licitaciones_ordenadas, licitaciones_unicas,
                   indices_procesados, grupos, varsHeap, varsDup, varsBeat, varsFusion, varsIngesta, varsScraper>>

\* an iteration of the outer loop that finds no duplicate of record i
AnclaSinDuplicados ==
    /\ pc = "bucle"
    /\ i <= Len(licitaciones_ordenadas)
    /\ i \notin indices_procesados
    /\ Duplicados(licitaciones_ordenadas, i, i + 1, indices_procesados) = <<>>
    /\ licitaciones_unicas' = Append(licitaciones_unicas, licitaciones_ordenadas[i])
    /\ grupos' = Append(grupos, [ancla |-> i, duplicados |-> <<>>])
    /\ indices_procesados' = indices_procesados \cup {i}
    /\ i' = i + 1
    /\ UNCHANGED <<pc, licitaciones, licitaciones_ordenadas, varsHeap, varsDup, varsBeat,
                   varsFusion, varsIngesta, varsScraper>>

\* an iteration of the outer loop that folds the duplicates of record i
AnclaConDuplicados ==
    /\ pc = "bucle"
    /\ i <= Len(licitaciones_ordenadas)
    /\ i \notin indices_procesados
    /\ LET duplicados ==
               Duplicados(licitaciones_ordenadas, i, i + 1, indices_procesados)
           r == FusionarTodas(licitaciones_ordenadas[i], duplicados,
                              licitaciones_ordenadas, heap)
       IN /\ duplicados # <<>>
          /\ licitaciones_unicas' = Append(licitaciones_unicas, r.lic)
          /\ heap' = r.heap
          /\ grupos' = Append(grupos, [ancla |-> i, duplicados |-> duplicados])
          /\ indices_procesados' = indices_procesados \cup {i} \cup Rango(duplicados)
    /\ i' = i + 1
    /\ UNCHANGED <<pc, licitaciones, licitaciones_ordenadas, heap0, varsDup, varsBeat,
                   varsFusion, varsIngesta, varsScraper>>

Devolver ==
    /\ pc = "bucle"
    /\ i > Len(licitaciones_ordenadas)
    /\ pc' = "fin_deteccion"
    /\ UNCHANGED <<varsDeteccion, varsHeap, varsDup, varsBeat, varsFusion, varsIngesta, varsScraper>>

--------------------------------------------------------------------------
(* Inputs of detectar_duplicados_en_lista *)

\* the longest batch
MaxLote == 3

SinCampos == [c \in CamposSet |-> Missing]
CamposGencat(presupuesto) ==
    [c \in CamposSet |->
        IF c = "presupuesto_base" THEN presupuesto
        ELSE IF c = "valor_estimado" THEN None
        ELSE IF c = "fecha_limite" THEN Dt(9)
        ELSE VAL_S]

LIC_P1 ==
    Dict([id_licitacion |-> Str("P-1"), fuente |-> Str("PLACSP"),
          expediente |-> EXP_A, titulo |-> TIT_A, url |-> Missing,
          fecha_publicacion |-> Dt(0)],
         [SinCampos EXCEPT !["presupuesto_base"] = Num(20)],
         Lit(<<DOC_A1>>), Missing)
LIC_P2 ==
    Dict([id_licitacion |-> Str("P-2"), fuente |-> Str("PLACSP"),
          expediente |-> EXP_A, titulo |-> TIT_A, url |-> Missing,
          fecha_publicacion |-> Dt(0)],
         [SinCampos EXCEPT !["presupuesto_base"] = Num(20)],
         Missing, Lit(<<FUENTE_PREVIA_1>>))
LIC_G1 ==
    Dict([id_licitacion |-> Str("GENCAT-1"), fuente |-> Str("GENCAT"),
          expediente |-> EXP_A, titulo |-> TIT_A, url |-> Str("ug1"),
          fecha_publicacion |-> Dt(0)],
         CamposGencat(Num(20)), Lit(<<>>), Missing)
LIC_G2 ==
    Dict([id_licitacion |-> Str("GENCAT-2"), fuente |-> Str("GENCAT"),
          expediente |-> EXP_B, titulo |-> TIT_B, url |-> Str("ug2"),
          fecha_publicacion |-> Dt(5)],
         CamposGencat(Num(19)), Lit(<<DOC_A2, DOC_B>>), Missing)
LIC_O1 ==
    Dict([id_licitacion |-> Str("O-1"), fuente |-> Str("OTRA"),
          expediente |-> EXP_A, titulo |-> TIT_C, url |-> Str("uo1"),
          fecha_publicacion |-> Dt(5)],
         CamposGencat(Num(19)), Missing, Missing)
LIC_X1 ==
    Dict([id_licitacion |-> Str("X-1"), fuente |-> Missing,
          expediente |-> EXP_A, titulo |-> TIT_A, url |-> Missing,
          fecha_publicacion |-> Dt(0)],
         [SinCampos EXCEPT !["presupuesto_base"] = Num(20)],
         Lit(<<DOC_B>>), Missing)
Catalogo == {LIC_P1, LIC_P2, LIC_G1, LIC_G2, LIC_O1, LIC_X1}

InitDeteccion ==
    /\ \E lote \in SeqHasta(Catalogo, MaxLote) :
        /\ licitaciones = CargarLics(lote)
        /\ heap = CargarHeap(lote)
    /\ heap0 = heap
    /\ licitaciones_ordenadas = <<>>
    /\ licitaciones_unicas = <<>>
    /\ indices_procesados = {}
    /\ i = 0
    /\ grupos = <<>>
    /\ pc = "detectar_duplicados_en_lista"
    /\ SinDup /\ SinBeat /\ SinFusion /\ SinIngesta /\ SinScraper

NextDeteccion ==
    \/ ListaVacia
    \/ Ordenar
    \/ SaltarProcesado
    \/ AnclaSinDuplicados
    \/ AnclaConDuplicados
    \/ Devolver
SpecDeteccion == InitDeteccion /\ [][NextDeteccion]_vars

\* both functions of the merge engine, each from its own inputs
InitFusionDeteccion == InitFusion \/ InitDeteccion
NextFusionDeteccion == NextFusion \/ NextDeteccion
SpecFusionDeteccion == InitFusionDeteccion /\ [][NextFusionDeteccion]_vars

--------------------------------------------------------------------------
(* Properties of fusionar_licitaciones and detectar_duplicados_en_lista *)

\* a value that is neither null (absent or None) nor the empty string;
\* the number 0 is a value
Presente(v) == v \notin {Missing, None, Str(<<>>)}

\* C3: every one of the nine content fields whose value on the principal
\* is present (neither null nor empty, a budget or estimated value of 0
\* included) holds the principal's value in the merged record, whatever the
\* secondary holds.
C3_PrincipalPresenteSeConserva ==
    pc = "fin_fusion" =>
        \A c \in CamposSet :
            Presente(licitacion_principal[c])
                => fusionada[c] = licitacion_principal[c]

\* C4: every one of the nine content fields that is null or empty on the
\* principal and non-empty on the secondary holds the secondary's value in
\* the merged record, and titulo, expediente, id_licitacion and fuente of
\* the merged record are the principal's.
C4_SecundariaCompleta ==
    pc = "fin_fusion" =>
        /\ \A c \in CamposSet :
               (~Presente(licitacion_principal[c])
                    /\ Presente(licitacion_secundaria[c]))
                   => fusionada[c] = licitacion_secundaria[c]
        /\ \A c \in {"titulo", "expediente", "id_licitacion", "fuente"} :
               fusionada[c] = licitacion_principal[c]

\* the (fuente, id_licitacion, url) triple of a record, None for a missing key
Triple(lic) ==
    [fuente |-> IF lic.fuente = Missing THEN None ELSE lic.fuente,
     id_licitacion |->
         IF lic.id_licitacion = Missing THEN None ELSE lic.id_licitacion,
     url |-> IF lic.url = Missing THEN None ELSE lic.url]

\* C5: after one call the merged record's fuentes_adicionales is the list
\* the principal had before the call followed by exactly one entry, the
\* triple of the secondary; after detectar_duplicados_en_lista the list of
\* every record that absorbed k duplicates is the list its anchor had in the
\* input followed by the k triples of the absorbed records in the order
\* they were absorbed, none of them the anchor.
C5_FuentesAdicionales ==
    /\ pc = "fin_fusion" =>
           Lista(heap, fusionada, "fuentes_adicionales")
               = Lista(heap0, licitacion_principal, "fuentes_adicionales")
                     \o <<Triple(licitacion_secundaria)>>
    /\ pc = "fin_deteccion" =>
           \A g \in 1..Len(grupos) :
               LET a == grupos[g].ancla
                   D == grupos[g].duplicados
               IN Len(D) >= 1 =>
                   /\ Lista(heap, licitaciones_unicas[g], "fuentes_adicionales")
                          = Lista(heap0, licitaciones_ordenadas[a],
                                  "fuentes_adicionales")
                                \o [m \in 1..Len(D) |->
                                        Triple(licitaciones_ordenadas[D[m]])]
                   /\ \A m \in 1..Len(D) :
                          /\ D[m] # a
                          /\ Triple(licitaciones_ordenadas[D[m]])
                                 # Triple(licitaciones_ordenadas[a])

\* in a batch an anchor that had a list absorbs two duplicates
C5_Witness ==
    /\ pc = "fin_deteccion"
    /\ \E g \in 1..Len(grupos) :
           /\ Len(grupos[g].duplicados) = 2
           /\ Len(Lista(heap0, licitaciones_ordenadas[grupos[g].ancla],
                        "fuentes_adicionales")) = 1
           /\ Len(Lista(heap, licitaciones_unicas[g], "fuentes_adicionales")) = 3

\* C6: the merged documentos is the principal's documents in their order
\* followed by exactly the secondary's documents whose nombre is not the
\* nombre of a document of the principal, in the secondary's order; a
\* secondary document named like a principal document is not added, whatever
\* its url.
C6_DocumentosPorNombre ==
    pc = "fin_fusion" =>
        LET P == Lista(heap0, licitacion_principal, "documentos")
            S == Lista(heap0, licitacion_secundaria, "documentos")
            R == Lista(heap, fusionada, "documentos")
            K == {k \in 1..Len(S) :
                     \A n \in 1..Len(P) : P[n].nombre # S[k].nombre}
        IN /\ Len(R) = Len(P) + Cardinality(K)
           /\ \A n \in 1..Len(P) : R[n] = P[n]
           /\ \A k \in K :
                  R[Len(P) + Cardinality({q \in K : q <= k})] = S[k]

\* the secondary has a document named like one of the principal but with
\* another url, and a document of a new name
C6_Witness ==
    /\ pc = "fin_fusion"
    /\ LET P == Lista(heap0, licitacion_principal, "documentos")
           S == Lista(heap0, licitacion_secundaria, "documentos")
       IN /\ \E n \in 1..Len(P), k \in 1..Len(S) :
                 P[n].nombre = S[k].nombre /\ P[n].url # S[k].url
          /\ \E k \in 1..Len(S) :
                 \A n \in 1..Len(P) : P[n].nombre # S[k].nombre

\* the rank of a record's source: PLACSP, then GENCAT, then any other
RangoFuente(lic) ==
    IF lic.fuente = Str("PLACSP") THEN 1
    ELSE IF lic.fuente = Str("GENCAT") THEN 2
    ELSE 3

\* C7: in every group of the result the anchor's source ranks at least as
\* high as the source of every record folded into it, and the merged record
\* carries the anchor's id_licitacion and fuente: a group with a PLACSP and
\* a GENCAT record survives under the PLACSP record's id_licitacion.
C7_PrincipalMayorPrioridad ==
    pc = "fin_deteccion" =>
        \A g \in 1..Len(grupos) :
            LET a == grupos[g].ancla
                D == grupos[g].duplicados
            IN /\ licitaciones_unicas[g].id_licitacion
                      = licitaciones_ordenadas[a].id_licitacion
               /\ licitaciones_unicas[g].fuente = licitaciones_ordenadas[a].fuente
               /\ \A m \in 1..Len(D) :
                      RangoFuente(licitaciones_ordenadas[a])
                          <= RangoFuente(licitaciones_ordenadas[D[m]])
               /\ LET G == {a} \cup Rango(D)
                  IN (/\ \E x \in G :
                             licitaciones_ordenadas[x].fuente = Str("PLACSP")
                      /\ \E x \in G :
                             licitaciones_ordenadas[x].fuente = Str("GENCAT"))
                         => licitaciones_ordenadas[a].fuente = Str("PLACSP")

\* the batch lists a GENCAT record before the PLACSP record that absorbs it
C7_Witness ==
    /\ pc = "fin_deteccion"
    /\ Len(licitaciones) >= 2
    /\ licitaciones[1].fuente = Str("GENCAT")
    /\ \E g \in 1..Len(grupos) :
           /\ licitaciones_ordenadas[grupos[g].ancla].fuente = Str("PLACSP")
           /\ \E m \in 1..Len(grupos[g].duplicados) :
                  licitaciones_ordenadas[grupos[g].duplicados[m]]
                      = licitaciones[1]

--------------------------------------------------------------------------
(* LicitacionService over the licitaciones table, and the ingestion run of
   scrape_placsp_recent *)

\* a Python list held by value, and the string json.dumps makes of it
Lista_(seq) == <<"lista", seq>>
JsonDumps(v) == Str(<<"json", v[2]>>)

\* an ISO 8601 string of instant t with a UTC offset
Iso(t, tz) == Str(<<"iso", t, tz>>)
\* datetime.fromisoformat(s.replace('+02:00', '').replace('+01:00', '')):
\* the naive datetime of the string's wall-clock instant
FromIsoformat(v) == Dt(v[2][2])

\* the keys of a dict of parse_entry, in the order it sets them
CLAVES_DATOS ==
    <<"id_licitacion", "titulo", "fecha_actualizacion", "codigos_cpv",
      "documentos">>

\* a Licitacion object a query returns
Fila(fila) == <<"fila", fila>>

\* Licitacion.id_licitacion == id_licitacion, .first(): a query sees the
\* rows flushed in the session's transaction
get_by_id_licitacion_confirmadas(id_licitacion) ==
    LET K == {k \in 1..Len(almacen) : almacen[k].id_licitacion = id_licitacion}
    IN IF K = {} THEN None ELSE Fila(sesion[CHOOSE k \in K : \A q \in K : k <= q])
get_by_id_licitacion(id_licitacion) ==
    LET K == {k \in 1..Len(sesion) : sesion[k].id_licitacion = id_licitacion}
    IN IF K = {} THEN None ELSE Fila(sesion[CHOOSE k \in K : \A q \in K : k <= q])

\* the rows after a flush: the UPDATE of a row that does not set updated_at
\* stamps it (onupdate=func.now())
Flush(filas, pendientes) ==
    [k \in 1..Len(filas) |->
        IF k \in pendientes THEN [filas[k] EXCEPT !.updated_at = reloj]
        ELSE filas[k]]

\* create(): the dict after the conversions and the pop
ConvertirDatos(datos) ==
    [datos EXCEPT
        !.fecha_actualizacion = IF IsStr(@) THEN FromIsoformat(@) ELSE @,
        !.codigos_cpv = IF @ # Missing /\ @[1] = "lista" THEN JsonDumps(@) ELSE @,
        !.documentos = Missing]

\* the Documento rows create() adds for documentos_data
Documentos_(documentos_data) ==
    [k \in 1..Len(documentos_data) |->
        [nombre |-> documentos_data[k].nombre,
         tipo |-> documentos_data[k].tipo,
         url_descarga |-> documentos_data[k].url]]

\* create(): the new Licitacion row
NuevaFila(datos, pk) ==
    LET convertidos == ConvertirDatos(datos)
        documentos_data ==
            IF datos.documentos = Missing THEN <<>> ELSE datos.documentos[2]
    IN [id |-> pk,
        id_licitacion |-> convertidos.id_licitacion,
        titulo |-> convertidos.titulo,
        fecha_actualizacion |->
            IF convertidos.fecha_actualizacion = Missing THEN None
            ELSE convertidos.fecha_actualizacion,
        codigos_cpv |->
            IF convertidos.codigos_cpv = Missing THEN None
            ELSE convertidos.codigos_cpv,
        documentos |-> Documentos_(documentos_data),
        titulo_adaptado |-> None,
        stack_tecnologico |-> None,
        conceptos_tic |-> None,
        resumen_tecnico |-> None,
        analizado_ia |-> FALSE,
        fecha_analisis_ia |-> None,
        created_at |-> reloj,
        updated_at |-> reloj]

\* a Python dict held by value (its keys), and Python truthiness of a
\* result of the AI service
Dict_(seq) == <<"dict", seq>>
TruthyIA(v) == v \notin {None, Str(<<>>), Dict_(<<>>), Lista_(<<>>)}

\* procesar_documentos_licitacion(documentos, max_docs=2) when the documents
\* at the positions of exito download and yield text
MAX_DOCS_IA == 2
RECURSIVE ProcesarDocumentos(_, _, _, _, _)
ProcesarDocumentos(docs, exito, k, resultado, docs_procesados) ==
    IF k > Len(docs) \/ docs_procesados >= MAX_DOCS_IA THEN resultado
    ELSE LET tipo == docs[k].tipo
             ok == k \in exito
         IN IF tipo = Str("pliego_tecnico") /\ resultado.pliego_tecnico = None
            THEN ProcesarDocumentos(docs, exito, k + 1,
                     IF ok THEN [resultado EXCEPT !.pliego_tecnico = Str(<<"pt", k>>)]
                     ELSE resultado,
                     IF ok THEN docs_procesados + 1 ELSE docs_procesados)
            ELSE IF tipo = Str("pliego_administrativo")
                        /\ resultado.pliego_administrativo = None
            THEN ProcesarDocumentos(docs, exito, k + 1,
                     IF ok THEN [resultado EXCEPT
                                    !.pliego_administrativo = Str(<<"pa", k>>)]
                     ELSE resultado,
                     IF ok THEN docs_procesados + 1 ELSE docs_procesados)
            ELSE IF tipo = Str("anexo")
            THEN ProcesarDocumentos(docs, exito, k + 1,
                     IF ok THEN [resultado EXCEPT
                                    !.anexos = Append(@, Str(<<"an", k>>))]
                     ELSE resultado,
                     IF ok THEN docs_procesados + 1 ELSE docs_procesados)
            ELSE ProcesarDocumentos(docs, exito, k + 1, resultado, docs_procesados)
procesar_documentos_licitacion(docs, exito) ==
    ProcesarDocumentos(docs, exito, 1,
        [pliego_tecnico |-> None, pliego_administrativo |-> None,
         anexos |-> <<>>], 0)

\* docs_texto.get('pliego_tecnico') or docs_texto.get('pliego_administrativo')
TextoPliego(texto) ==
    IF texto.pliego_tecnico # None THEN texto.pliego_tecnico
    ELSE texto.pliego_administrativo

\* what _procesar_licitacion_con_ia got from its collaborators: extraccion
\* is <<"raise">> or the positions whose download yields text; clasificacion
\* is <<"raise">>, None or <<"dict", result>>
LocalesIA(docs, extraccion, clasificacion) ==
    IF docs = <<>> THEN [docs_texto |-> None, analisis |-> None]
    ELSE IF extraccion = <<"raise">>
    THEN [docs_texto |-> <<"raise">>, analisis |-> None]
    ELSE LET texto == procesar_documentos_licitacion(docs, extraccion[2])
         IN [docs_texto |-> <<"dict", texto>>,
             analisis |-> IF TextoPliego(texto) = None THEN None
                          ELSE clasificacion]

\* `licitacion.analizado_ia = True` is inside `if analisis:`
se_analizo_siempre(resultado) == TRUE
se_analizo(resultado) == resultado # None /\ resultado # <<"raise">>

\* _procesar_licitacion_con_ia(licitacion, documentos, db): the row after
\* the call, which returns normally on every path
procesar_licitacion_con_ia(licitacion, locales) ==
    LET hay == locales.analisis # None /\ locales.analisis # <<"raise">>
        r == locales.analisis[2]
        con_campos ==
            IF ~hay THEN licitacion
            ELSE [licitacion EXCEPT
                    !.titulo_adaptado =
                        IF TruthyIA(r.titulo_adaptado) THEN r.titulo_adaptado
                        ELSE @,
                    !.stack_tecnologico =
                        IF TruthyIA(r.stack_tecnologico)
                        THEN JsonDumps(r.stack_tecnologico) ELSE @,
                    !.conceptos_tic =
                        IF TruthyIA(r.conceptos_tic)
                        THEN JsonDumps(r.conceptos_tic) ELSE @,
                    !.resumen_tecnico =
                        IF TruthyIA(r.resumen_tecnico)
                        THEN JsonDumps(r.resumen_tecnico) ELSE @]
    IN IF se_analizo(locales.analisis)
       THEN [con_campos EXCEPT !.analizado_ia = TRUE,
                               !.fecha_analisis_ia = reloj]
       ELSE con_campos

\* `current_value != value`: a Documento never equals a dict, a datetime
\* never a str, a str never a list
distintos(key, current_value, value) ==
    IF key = "documentos" THEN ~(current_value = <<>> /\ value[2] = <<>>)
    ELSE current_value # value

RECURSIVE Actualizar(_, _, _, _)
\* the loop of update() from the k-th key on: the row, has_changes, and
\* whether a setattr raised (a list of dicts set as the documentos collection)
Actualizar(fila, datos, k, has_changes) ==
    IF k > Len(CLAVES_DATOS)
    THEN [fila |-> fila, has_changes |-> has_changes, error |-> FALSE]
    ELSE LET key == CLAVES_DATOS[k]
             value == datos[key]
         IN IF value = Missing THEN Actualizar(fila, datos, k + 1, has_changes)
            ELSE IF ~distintos(key, fila[key], value)
                 THEN Actualizar(fila, datos, k + 1, has_changes)
            ELSE IF key = "documentos"
                 THEN [fila |-> fila, has_changes |-> has_changes, error |-> TRUE]
            ELSE Actualizar([fila EXCEPT ![key] = value], datos, k + 1, TRUE)

\* the value a TIMESTAMP column gives back for what was written to it
ColumnaTimestamp(v) == IF IsStr(v) THEN FromIsoformat(v) ELSE v
Confirmar(filas) ==
    [k \in 1..Len(filas) |->
        [filas[k] EXCEPT
            !.fecha_actualizacion = ColumnaTimestamp(@)]]

\* the last instant at which a run starts or a record is processed
MaxReloj == 5

DOCS_1 == Lista_(<<[nombre |-> Str("n1"), tipo |-> Str("pliego_tecnico"),
                   url |-> Str("u1")]>>)
CPV_1 == Lista_(<<"72000000">>)
FECHA_ISO == Iso(1, "+02:00")
\* the dicts the adapter yields
Registros ==
    {[id_licitacion |-> Str("a"), titulo |-> t, fecha_actualizacion |-> f,
      codigos_cpv |-> x[1], documentos |-> x[2]] :
        t \in {Str("t1"), Str("t2")}, f \in {None, FECHA_ISO},
        x \in {<<Missing, Missing>>, <<CPV_1, Missing>>, <<Missing, DOCS_1>>}}
    \cup {[id_licitacion |-> Str("b"), titulo |-> Str("t1"),
           fecha_actualizacion |-> FECHA_ISO, codigos_cpv |-> Missing,
           documentos |-> Missing]}

InitIngesta ==
    /\ pc = "reposo"
    /\ SinIngesta
    /\ SinDup /\ SinBeat /\ SinFusion /\ SinHeap /\ SinDeteccion /\ SinScraper

varsOtros == <<varsDup, varsBeat, varsHeap, varsFusion, varsDeteccion, varsScraper>>
varsIA == <<documentos, docs_texto, analisis>>
varsRun == <<sesion_activa, inicio, licitaciones_placsp, licitaciones_gencat>>

\* the outcomes of the PDF service for a list of documents, and of
\* analizar_licitacion_completa, which returns None when all four are empty
Extracciones(docs) ==
    {<<"raise">>} \cup {<<"exito", e>> : e \in SUBSET (1..Len(docs))}
Resultados ==
    {r \in [titulo_adaptado : {None, Str(<<"t">>)},
            stack_tecnologico : {Dict_(<<>>), Dict_(<<"lenguajes">>)},
            conceptos_tic : {Lista_(<<>>), Lista_(<<"cloud">>)},
            resumen_tecnico : {Dict_(<<>>), Dict_(<<"objetivo">>)}] :
        \/ TruthyIA(r.titulo_adaptado) \/ TruthyIA(r.stack_tecnologico)
        \/ TruthyIA(r.conceptos_tic) \/ TruthyIA(r.resumen_tecnico)}
Clasificaciones == {<<"raise">>, None} \cup {<<"dict", r>> : r \in Resultados}

\* db = SessionLocal(); nuevas = 0; actualizadas = 0
IniciarRun ==
    /\ pc \in {"reposo", "raise"}
    /\ reloj < MaxReloj
    /\ sesion' = almacen
    /\ sucios' = {}
    /\ nuevas' = 0 /\ actualizadas' = 0 /\ actualizadas0' = 0
    /\ lic_data' = None /\ lic_data0' = None /\ existing' = None
    /\ updated' = ""
    /\ reloj' = reloj + 1
    /\ sesion_activa' = TRUE
    /\ inicio' = reloj + 1
    /\ pc' = "for_lic_data"
    /\ UNCHANGED <<almacen, creada, varsOtros, varsIA, licitaciones_placsp,
                   licitaciones_gencat>>

\* the else branch: create(), nuevas += 1, _procesar_licitacion_con_ia
ProcesarNueva ==
    /\ pc = "for_lic_data"
    /\ reloj < MaxReloj
    /\ sesion_activa
    /\ \E datos \in Registros :
        /\ get_by_id_licitacion(datos.id_licitacion) = None
        /\ LET nueva_lic == NuevaFila(datos, Len(sesion) + 1)
               convertidos == ConvertirDatos(datos)
               \* lic_data.get('documentos', []) after create()
               leidos == IF convertidos.documentos = Missing THEN <<>>
                         ELSE convertidos.documentos[2]
           IN \E extraccion \in Extracciones(leidos),
                 clasificacion \in IF leidos = <<>> THEN {None}
                                   ELSE Clasificaciones :
              LET locales == LocalesIA(leidos, extraccion, clasificacion)
                  final == procesar_licitacion_con_ia(nueva_lic, locales)
              IN
              /\ sesion' = Append(Flush(sesion, sucios), final)
              /\ creada' = Append(creada, [datos |-> datos, fila |-> nueva_lic])
              /\ lic_data' = convertidos
              /\ lic_data0' = datos
              /\ documentos' = leidos
              /\ docs_texto' = locales.docs_texto
              /\ analisis' = locales.analisis
    /\ sucios' = {}
    /\ existing' = None
    /\ updated' = ""
    /\ nuevas' = nuevas + 1
    /\ actualizadas0' = actualizadas
    /\ reloj' = reloj + 1
    /\ UNCHANGED <<pc, almacen, actualizadas, varsOtros, varsRun>>

\* the if branch: update() returns, actualizadas += 1 when it returns True
ProcesarExistente ==
    /\ pc = "for_lic_data"
    /\ reloj < MaxReloj
    /\ sesion_activa
    /\ \E datos \in Registros :
        LET encontrada == get_by_id_licitacion(datos.id_licitacion)
        IN /\ encontrada # None
           /\ LET r == Actualizar(encontrada[2], datos, 1, FALSE)
                  pk == encontrada[2].id
              IN /\ ~r.error
                 /\ existing' = encontrada
                 /\ lic_data' = datos
                 /\ lic_data0' = datos
                 /\ updated' = IF r.has_changes THEN "True" ELSE "False"
                 /\ IF r.has_changes
                    THEN /\ sesion' = Flush([sesion EXCEPT ![pk] =
                                                [r.fila EXCEPT !.updated_at = reloj]],
                                            sucios)
                         /\ sucios' = {}
                         /\ actualizadas' = actualizadas + 1
                    ELSE UNCHANGED <<sesion, sucios, actualizadas>>
    /\ actualizadas0' = actualizadas
    /\ reloj' = reloj + 1
    /\ UNCHANGED <<pc, almacen, nuevas, creada, varsOtros, varsIA, varsRun>>

\* the if branch when update() raises: `except Exception ... continue`; the
\* attributes set before the raise stay on the row, not flushed
ProcesarExistenteError ==
    /\ pc = "for_lic_data"
    /\ reloj < MaxReloj
    /\ sesion_activa
    /\ \E datos \in Registros :
        LET encontrada == get_by_id_licitacion(datos.id_licitacion)
        IN /\ encontrada # None
           /\ LET r == Actualizar(encontrada[2], datos, 1, FALSE)
                  pk == encontrada[2].id
              IN /\ r.error
                 /\ existing' = encontrada
                 /\ lic_data' = datos
                 /\ lic_data0' = datos
                 /\ updated' = "raise"
                 /\ sesion' = [sesion EXCEPT ![pk] = r.fila]
                 /\ sucios' = IF r.has_changes THEN sucios \cup {pk} ELSE sucios
    /\ actualizadas0' = actualizadas
    /\ reloj' = reloj + 1
    /\ UNCHANGED <<pc, almacen, nuevas, actualizadas, creada, varsOtros,
                   varsIA, varsRun>>

\* a record whose lookup, create() or update() raises from the database (the
\* query, or the INSERT/UPDATE of db.flush()): the database rolls the
\* transaction back and with it every row the run had flushed;
\* `except Exception ... continue` issues no db.rollback(), so the session
\* stays unusable; the counters keep what they had counted
ProcesarErrorPersistencia ==
    /\ pc = "for_lic_data"
    /\ reloj < MaxReloj
    /\ sesion_activa
    /\ \E datos \in Registros :
        /\ lic_data' = datos
        /\ lic_data0' = datos
    /\ sesion' = almacen
    /\ creada' = SubSeq(creada, 1, Len(almacen))
    /\ sucios' = {}
    /\ existing' = None
    /\ updated' = "raise"
    /\ sesion_activa' = FALSE
    /\ actualizadas0' = actualizadas
    /\ reloj' = reloj + 1
    /\ UNCHANGED <<pc, almacen, nuevas, actualizadas, inicio, varsOtros, varsIA,
                   licitaciones_placsp, licitaciones_gencat>>

\* a record after that one: get_by_id_licitacion raises on the session that
\* was not rolled back, `except Exception ... continue`
ProcesarSesionInvalida ==
    /\ pc = "for_lic_data"
    /\ reloj < MaxReloj
    /\ ~sesion_activa
    /\ \E datos \in Registros :
        /\ lic_data' = datos
        /\ lic_data0' = datos
    /\ existing' = None
    /\ updated' = "raise"
    /\ actualizadas0' = actualizadas
    /\ reloj' = reloj + 1
    /\ UNCHANGED <<pc, almacen, sesion, sucios, nuevas, actualizadas, creada,
                   varsOtros, varsIA, varsRun>>

\* db.commit() after the loop, and the return of the task, which ends its
\* locals
Commit ==
    /\ pc = "for_lic_data"
    /\ sesion_activa
    /\ almacen' = Confirmar(Flush(sesion, sucios))
    /\ sesion' = almacen'
    /\ sucios' = {}
    /\ lic_data' = None /\ lic_data0' = None /\ existing' = None
    /\ updated' = ""
    /\ pc' = "reposo"
    /\ UNCHANGED <<nuevas, actualizadas, reloj, creada,
                   actualizadas0, varsOtros, varsIA, varsRun>>

\* the outer handler: `except Exception: db.rollback(); raise`, then
\* `finally: db.close()`: nothing of the run is committed
Rollback ==
    /\ sesion' = almacen
    /\ creada' = SubSeq(creada, 1, Len(almacen))
    /\ sucios' = {}
    /\ lic_data' = None /\ lic_data0' = None /\ existing' = None
    /\ updated' = ""
    /\ pc' = "raise"
    /\ UNCHANGED <<almacen, nuevas, actualizadas, reloj, actualizadas0,
                   varsOtros, varsIA, varsRun>>

\* db.commit() after the loop raises on the session that was not rolled back
CommitError ==
    /\ pc = "for_lic_data"
    /\ ~sesion_activa
    /\ Rollback

\* an exception that `except Exception` of the loop body does not catch (the
\* worker is told to stop inside the loop): the run ends before db.commit()
AbortarRun ==
    /\ pc = "for_lic_data"
    /\ sesion_activa
    /\ Rollback

NextIngesta ==
    \/ IniciarRun
    \/ ProcesarNueva
    \/ ProcesarExistente
    \/ ProcesarExistenteError
    \/ ProcesarErrorPersistencia
    \/ ProcesarSesionInvalida
    \/ Commit
    \/ CommitError
    \/ AbortarRun
SpecIngesta == InitIngesta /\ [][NextIngesta]_vars

--------------------------------------------------------------------------
(* Properties of the ingestion run *)

\* the lookup found a row that is still exactly as create() returned it
ComoFueCreada ==
    /\ pc = "for_lic_data"
    /\ existing # None
    /\ existing[2] = creada[existing[2].id].fila

\* the keys in which two dicts of the adapter differ
ClavesDistintas(d1, d2) ==
    {k \in 1..Len(CLAVES_DATOS) : d1[CLAVES_DATOS[k]] # d2[CLAVES_DATOS[k]]}

--------------------------------------------------------------------------
(* _procesar_licitacion_con_ia, called for a row create() has just returned *)

\* the longest list of documents handed to the function
MaxDocsIA == 2

DOC_PT == [nombre |-> Str("pt"), tipo |-> Str("pliego_tecnico"), url |-> Str("u1")]
DOC_PA ==
    [nombre |-> Str("pa"), tipo |-> Str("pliego_administrativo"), url |-> Str("u2")]
DOC_AN == [nombre |-> Str("an"), tipo |-> Str("anexo"), url |-> Str("u3")]
DocumentosIA == {DOC_PT, DOC_PA, DOC_AN}

InitEnriquecimiento ==
    /\ pc = "procesar_licitacion_con_ia"
    /\ reloj = 2
    /\ \E datos \in Registros :
        /\ sesion = <<[NuevaFila(datos, 1) EXCEPT !.created_at = 1,
                                                   !.updated_at = 1]>>
        /\ creada = <<[datos |-> datos, fila |-> sesion[1]]>>
        /\ lic_data = ConvertirDatos(datos)
        /\ lic_data0 = datos
    /\ documentos \in SeqHasta(DocumentosIA, MaxDocsIA)
    /\ docs_texto = None /\ analisis = None
    /\ almacen = <<>> /\ sucios = {}
    /\ nuevas = 1 /\ actualizadas = 0 /\ actualizadas0 = 0
    /\ existing = None /\ updated = ""
    /\ sesion_activa = TRUE /\ inicio = 1
    /\ licitaciones_placsp = <<>> /\ licitaciones_gencat = <<>>
    /\ SinDup /\ SinBeat /\ SinFusion /\ SinHeap /\ SinDeteccion /\ SinScraper

\* the call, from `if not documentos` to its return into the loop
ProcesarLicitacionConIA ==
    /\ pc = "procesar_licitacion_con_ia"
    /\ \E extraccion \in Extracciones(documentos),
          clasificacion \in Clasificaciones :
        LET locales == LocalesIA(documentos, extraccion, clasificacion)
        IN /\ sesion' = [sesion EXCEPT
                            ![Len(sesion)] = procesar_licitacion_con_ia(@, locales)]
           /\ docs_texto' = locales.docs_texto
           /\ analisis' = locales.analisis
    /\ pc' = "for_lic_data"
    /\ UNCHANGED <<almacen, sucios, nuevas, actualizadas, lic_data, existing,
                   updated, reloj, creada, lic_data0, actualizadas0, documentos,
                   varsOtros, varsRun>>

NextEnriquecimiento == ProcesarLicitacionConIA
SpecEnriquecimiento == InitEnriquecimiento /\ [][NextEnriquecimiento]_vars

--------------------------------------------------------------------------
(* Properties of the enrichment step *)

\* the last record of the run was created
RecienCreada ==
    /\ pc = "for_lic_data"
    /\ nuevas >= 1
    /\ existing = None
    /\ updated = ""
    /\ sesion_activa

CamposIA ==
    {"titulo_adaptado", "stack_tecnologico", "conceptos_tic", "resumen_tecnico"}

\* C14: when the extraction raises or yields no text of a pliego, or the
\* classification raises or returns None, the row stays in the session and
\* counted in nuevas, the loop goes on, the four enrichment fields stay None
\* and analizado_ia stays False; analizado_ia is True only when the
\* classification returned a result.
C14_FalloDeEnriquecimiento ==
    pc = "for_lic_data" =>
        LET fila == sesion[Len(sesion)]
            fallo == analisis = None \/ analisis = <<"raise">>
        IN /\ Len(sesion) = nuevas
           /\ fallo => /\ \A c \in CamposIA : fila[c] = None
                       /\ fila.analizado_ia = FALSE
                       /\ fila = creada[Len(sesion)].fila
           /\ fila.analizado_ia = TRUE => ~fallo

\* the text of a pliego was extracted and the classification raised
C14_Witness ==
    /\ pc = "for_lic_data"
    /\ docs_texto # None /\ docs_texto # <<"raise">>
    /\ TextoPliego(docs_texto[2]) # None
    /\ analisis = <<"raise">>
    /\ sesion[1].analizado_ia = FALSE

--------------------------------------------------------------------------
(* Properties of a run in which a record or the run itself fails *)

\* rows of the committed table that the running task created or updated
ConfirmadasDelRun ==
    {k \in 1..Len(almacen) : almacen[k].updated_at >= inicio}

--------------------------------------------------------------------------
(* scraper_auto.main: the two sources persisted one after the other *)

\* the longest list a source yields
MaxFuente == 2

RegistroMain(id, fuente, expediente, titulo, presupuesto, fecha, docs) ==
    [id_licitacion |-> Str(id), titulo |-> titulo,
     fecha_actualizacion |-> None, codigos_cpv |-> Missing, documentos |-> docs,
     fuente |-> Str(fuente), expediente |-> expediente,
     presupuesto_base |-> presupuesto, fecha_publicacion |-> fecha]
MAIN_P1 == RegistroMain("P-1", "PLACSP", EXP_A, TIT_A, Num(20), Dt(0), DOCS_1)
MAIN_P2 == RegistroMain("P-2", "PLACSP", EXP_B, TIT_B, Num(19), Dt(5), Missing)
MAIN_G1 == RegistroMain("GENCAT-1", "GENCAT", EXP_A, TIT_A, Num(20), Dt(0), Missing)
MAIN_G2 == RegistroMain("GENCAT-2", "GENCAT", None, TIT_C, None, Dt(17), Missing)

\* db = SessionLocal(); the counters; list(scraper_placsp.scrape_all(...))
InitMain ==
    /\ pc = "placsp"
    /\ licitaciones_placsp \in SeqHasta({MAIN_P1, MAIN_P2}, MaxFuente)
    /\ licitaciones_gencat = <<>>
    /\ almacen = <<>> /\ sesion = <<>> /\ sucios = {}
    /\ nuevas = 0 /\ actualizadas = 0
    /\ lic_data = None /\ existing = None /\ updated = ""
    /\ reloj = 1 /\ creada = <<>>
    /\ lic_data0 = None /\ actualizadas0 = 0
    /\ documentos = <<>> /\ docs_texto = None /\ analisis = None
    /\ sesion_activa = TRUE /\ inicio = 1
    /\ SinDup /\ SinBeat /\ SinFusion /\ SinHeap /\ SinDeteccion /\ SinScraper

\* the body of either loop for the dict datos: lookup, then update() or
\* create() and the analysis; ia is what the analysis of a new row leaves in
\* docs_texto and analisis
ProcesarEnMain(datos, ia) ==
    LET encontrada == get_by_id_licitacion(datos.id_licitacion)
    IN /\ lic_data0' = datos
       /\ actualizadas0' = actualizadas
       /\ IF encontrada # None
          THEN LET r == Actualizar(encontrada[2], datos, 1, FALSE)
                   pk == encontrada[2].id
               IN /\ existing' = encontrada
                  /\ lic_data' = datos
                  /\ updated' = IF r.error THEN "raise"
                                ELSE IF r.has_changes THEN "True" ELSE "False"
                  /\ IF r.error
                     THEN /\ sesion' = [sesion EXCEPT ![pk] = r.fila]
                          /\ sucios' = IF r.has_changes THEN sucios \cup {pk}
                                       ELSE sucios
                          /\ UNCHANGED actualizadas
                     ELSE IF r.has_changes
                     THEN /\ sesion' = Flush([sesion EXCEPT ![pk] =
                                                [r.fila EXCEPT !.updated_at = reloj]],
                                             sucios)
                          /\ sucios' = {}
                          /\ actualizadas' = actualizadas + 1
                     ELSE UNCHANGED <<sesion, sucios, actualizadas>>
                  /\ UNCHANGED <<nuevas, creada, varsIA>>
          ELSE LET nueva_lic == NuevaFila(datos, Len(sesion) + 1)
                   convertidos == ConvertirDatos(datos)
                   final == procesar_licitacion_con_ia(nueva_lic, ia)
               IN /\ sesion' = Append(Flush(sesion, sucios), final)
                  /\ sucios' = IF final = nueva_lic THEN {} ELSE {Len(sesion) + 1}
                  /\ creada' = Append(creada, [datos |-> datos, fila |-> nueva_lic])
                  /\ lic_data' = convertidos
                  /\ existing' = None
                  /\ updated' = ""
                  /\ nuevas' = nuevas + 1
                  /\ documentos' = IF convertidos.documentos = Missing THEN <<>>
                                   ELSE convertidos.documentos[2]
                  /\ docs_texto' = ia.docs_texto
                  /\ analisis' = ia.analisis
                  /\ UNCHANGED actualizadas

\* a PLACSP record: `documentos = lic_data.get("documentos", [])` is read
\* after create(), and the analysis is under `if documentos:`
ProcesarPlacsp ==
    /\ pc = "placsp"
    /\ licitaciones_placsp # <<>>
    /\ ProcesarEnMain(Head(licitaciones_placsp),
                      [docs_texto |-> None, analisis |-> None])
    /\ licitaciones_placsp' = Tail(licitaciones_placsp)
    /\ UNCHANGED <<pc, almacen, reloj, sesion_activa, inicio,
                   licitaciones_gencat, varsOtros>>

\* db.commit() after the PLACSP loop, then list(scraper_gencat.scrape_all(...))
CommitPlacsp ==
    /\ pc = "placsp"
    /\ licitaciones_placsp = <<>>
    /\ almacen' = Confirmar(Flush(sesion, sucios))
    /\ sesion' = almacen'
    /\ sucios' = {}
    /\ licitaciones_gencat' \in SeqHasta({MAIN_G1, MAIN_G2}, MaxFuente)
    /\ pc' = "gencat"
    /\ UNCHANGED <<nuevas, actualizadas, lic_data, existing, updated, reloj,
                   creada, lic_data0, actualizadas0, sesion_activa, inicio,
                   licitaciones_placsp, varsIA, varsOtros>>

\* a Gencat record: analizar_licitacion_completa is called without its
\* parameter descripcion (the argument is inside the string literal that
\* starts at `or '''`), which raises TypeError into `except Exception`
ProcesarGencat ==
    /\ pc = "gencat"
    /\ licitaciones_gencat # <<>>
    /\ ProcesarEnMain(Head(licitaciones_gencat),
                      [docs_texto |-> None, analisis |-> <<"raise">>])
    /\ licitaciones_gencat' = Tail(licitaciones_gencat)
    /\ UNCHANGED <<pc, almacen, reloj, sesion_activa, inicio,
                   licitaciones_placsp, varsOtros>>

\* db.commit() after the Gencat loop, the summary and db.close()
CommitGencat ==
    /\ pc = "gencat"
    /\ licitaciones_gencat = <<>>
    /\ almacen' = Confirmar(Flush(sesion, sucios))
    /\ sesion' = almacen'
    /\ sucios' = {}
    /\ pc' = "fin"
    /\ UNCHANGED <<nuevas, actualizadas, lic_data, existing, updated, reloj,
                   creada, lic_data0, actualizadas0, varsRun, varsIA, varsOtros>>

NextMain ==
    \/ ProcesarPlacsp
    \/ CommitPlacsp
    \/ ProcesarGencat
    \/ CommitGencat
SpecMain == InitMain /\ [][NextMain]_vars

\* C15: no two records a run of the pipeline handed to create() come from
\* different sources and satisfy son_duplicadas: duplicate detection and
\* merge over the whole batch came before persistence.
C15_PersistidasSinDuplicados ==
    \A j, k \in 1..Len(creada) :
        ~son_duplicadas(creada[j].datos, creada[k].datos)

--------------------------------------------------------------------------
(* The relevance classifiers of the source adapters *)

\* str.startswith(prefix) and `sub in s`
StartsWith(s, prefix) ==
    Len(prefix) <= Len(s) /\ SubSeq(s, 1, Len(prefix)) = prefix
Contiene(s, sub) ==
    \E k \in 0..(Len(s) - Len(sub)) : SubSeq(s, k + 1, k + Len(sub)) = sub

\* entries of PLACSPScraperV2.CPV_TIC and KEYWORDS_TIC
CPV_TIC == {<<"7", "2">>, <<"4", "8">>, <<"3", "0", "2", "0", "0">>}
KEYWORDS_TIC == {<<"w", "e", "b">>, <<"b", "i", "g", " ", "d", "a", "t", "a">>}
\* entries of GencatScraper.CPV_TIC and KEYWORDS_TIC
CPV_TIC_GENCAT == {<<"7", "2", "0", "0", "0", "0", "0", "0", "-", "5">>, <<"7", "2", "1", "0", "0", "0", "0", "0", "-", "6">>, <<"4", "8", "0", "0", "0", "0", "0", "0", "-", "8">>}
KEYWORDS_TIC_GENCAT == {<<"w", "e", "b">>, <<"b", "i", "g", " ", "d", "a", "t", "a">>}

\* PLACSPScraperV2.es_licitacion_tic(licitacion): "True", "False", or "raise"
\* where the str method or the slice is applied to None
es_licitacion_tic(lic) ==
    LET codigos_cpv ==
            IF lic.codigos_cpv = Missing THEN <<>> ELSE lic.codigos_cpv[2]
        por_cpv ==
            \E k \in 1..Len(codigos_cpv) :
                \E cpv_tic \in CPV_TIC : StartsWith(codigos_cpv[k], cpv_tic)
        titulo == GetDefault(lic, "titulo", Str(<<>>))
        resumen == GetDefault(lic, "resumen", Str(<<>>))
    IN IF por_cpv
       \* the f-string of the debug message: licitacion.get('titulo', '')[:50]
       THEN IF titulo = None THEN "raise" ELSE "True"
       ELSE IF titulo = None THEN "raise"
       ELSE IF \E keyword \in KEYWORDS_TIC : Contiene(LowerText(titulo[2]), keyword)
       THEN "True"
       ELSE IF resumen = None THEN "raise"
       ELSE IF \E keyword \in KEYWORDS_TIC : Contiene(LowerText(resumen[2]), keyword)
       THEN "True"
       ELSE "False"

\* `licitacion.get(key, '') or ''`
GetOr(d, k) == IF d[k] \in {Missing, None} THEN <<>> ELSE d[k][2]

\* GencatScraper._es_licitacion_tic(licitacion), on a row of the API
es_licitacion_tic_gencat(lic) ==
    LET cpv == GetDefault(lic, "codi_cpv", Str(<<>>))
        titulo == LowerText(GetOr(lic, "denominacio"))
        descripcion == LowerText(GetOr(lic, "objecte_contracte"))
        texto_completo == titulo \o <<" ">> \o descripcion
    IN IF cpv = None THEN "raise"
       ELSE IF \E tic_cpv \in CPV_TIC_GENCAT :
                   StartsWith(cpv[2], SubSeq(tic_cpv, 1, 2))
       THEN "True"
       ELSE IF \E keyword \in KEYWORDS_TIC_GENCAT :
                   Contiene(texto_completo, LowerText(keyword))
       THEN "True"
       ELSE "False"

\* the dicts parse_entry builds: codigos_cpv only under a ProcurementProject,
\* titulo and resumen None when the element is absent or empty
CODIGOS_V2 ==
    {Missing, Lista_(<<>>), Lista_(<<<<"7", "2", "1", "0", "0", "0", "0", "0", "-", "6">>>>), Lista_(<<<<"4", "5", "0", "0", "0", "0", "0", "0", "-", "7">>>>),
     Lista_(<<<<"3", "0", "1", "0", "0", "0", "0", "0", "-", "0">>, <<"4", "5", "0", "0", "0", "0", "0", "0", "-", "7">>>>)}
TEXTOS_V2 == {None, Str(<<"w", "e", "B">>), Str(<<"o", "b", "r", "a">>), Str(<<"B", "i", "g", " ", "d", "a", "t", "a">>)}
EntradasV2 == [codigos_cpv : CODIGOS_V2, titulo : TEXTOS_V2, resumen : TEXTOS_V2]
\* the rows of the Gencat API, which leaves out the columns without value
CODIGOS_GENCAT == {Missing, Str(<<"7", "2", "1", "0", "0", "0", "0", "0", "-", "6">>), Str(<<"7", "2", "2", "1", "2", "0", "0", "0", "-", "4">>), Str(<<"4", "5", "0", "0", "0", "0", "0", "0", "-", "7">>)}
TEXTOS_GENCAT == {Missing, Str(<<"w", "e", "B">>), Str(<<"o", "b", "r", "a">>), Str(<<"b", "i", "g">>), Str(<<"d", "a", "t", "a">>)}
EntradasGencat ==
    [codi_cpv : CODIGOS_GENCAT, denominacio : TEXTOS_GENCAT,
     objecte_contracte : TEXTOS_GENCAT]

InitClasificador ==
    /\ pc = "es_licitacion_tic"
    /\ \/ scraper = "PLACSPScraperV2" /\ licitacion_tic \in EntradasV2
       \/ scraper = "GencatScraper" /\ licitacion_tic \in EntradasGencat
    /\ es_tic = ""
    /\ pagina = None /\ page = 0 /\ entregadas = <<>>
    /\ stream = <<>> /\ cutoff_date = 0 /\ utcoffset = 0 /\ recientes = <<>>
    /\ SinDup /\ SinBeat /\ SinFusion /\ SinHeap /\ SinDeteccion /\ SinIngesta

EsLicitacionTic ==
    /\ pc = "es_licitacion_tic"
    /\ scraper = "PLACSPScraperV2"
    /\ es_tic' = es_licitacion_tic(licitacion_tic)
    /\ pc' = "fin"
    /\ UNCHANGED <<scraper, licitacion_tic, pagina, page, entregadas, stream,
                   cutoff_date, utcoffset, recientes, varsDup, varsBeat, varsHeap,
                   varsFusion, varsDeteccion, varsIngesta>>

EsLicitacionTicGencat ==
    /\ pc = "es_licitacion_tic"
    /\ scraper = "GencatScraper"
    /\ es_tic' = es_licitacion_tic_gencat(licitacion_tic)
    /\ pc' = "fin"
    /\ UNCHANGED <<scraper, licitacion_tic, pagina, page, entregadas, stream,
                   cutoff_date, utcoffset, recientes, varsDup, varsBeat, varsHeap,
                   varsFusion, varsDeteccion, varsIngesta>>

NextClasificador == EsLicitacionTic \/ EsLicitacionTicGencat
SpecClasificador == InitClasificador /\ [][NextClasificador]_vars

\* the codes, the title and the summary of the record that was classified,
\* and the configuration of its adapter
CodigosDe(lic) ==
    IF scraper = "GencatScraper"
    THEN IF lic.codi_cpv \in {Missing, None} THEN {} ELSE {lic.codi_cpv[2]}
    ELSE IF lic.codigos_cpv = Missing THEN {}
         ELSE {lic.codigos_cpv[2][k] : k \in 1..Len(lic.codigos_cpv[2])}
TituloDe(lic) ==
    IF scraper = "GencatScraper" THEN GetOr(lic, "denominacio")
    ELSE GetOr(lic, "titulo")
ResumenDe(lic) ==
    IF scraper = "GencatScraper" THEN GetOr(lic, "objecte_contracte")
    ELSE GetOr(lic, "resumen")
PrefijosConfigurados ==
    IF scraper = "GencatScraper" THEN CPV_TIC_GENCAT ELSE CPV_TIC
KeywordsConfiguradas ==
    IF scraper = "GencatScraper" THEN KEYWORDS_TIC_GENCAT ELSE KEYWORDS_TIC

SenalDeCodigo(lic) ==
    \E cpv \in CodigosDe(lic) : \E p \in PrefijosConfigurados : StartsWith(cpv, p)
SenalDeKeyword(lic) ==
    \E keyword \in KeywordsConfiguradas :
        \/ Contiene(LowerText(TituloDe(lic)), LowerText(keyword))
        \/ Contiene(LowerText(ResumenDe(lic)), LowerText(keyword))

\* C16: the classifier returns True exactly when a code of the record starts
\* with a configured prefix or a configured keyword occurs, whatever the
\* case, in the title or in the summary.
C16_RelevanteSiiCodigoOKeyword ==
    pc = "fin" =>
        (es_tic = "True" <=>
            (SenalDeCodigo(licitacion_tic) \/ SenalDeKeyword(licitacion_tic)))

\* C17: the classifier does not raise on a record of its adapter's parser,
\* and returns False when the codes, the title or the summary are missing,
\* None or empty and nothing else matches.
C17_ClasificadorNoLanza ==
    pc = "fin" =>
        /\ es_tic # "raise"
        /\ (~SenalDeCodigo(licitacion_tic) /\ ~SenalDeKeyword(licitacion_tic))
               => es_tic = "False"

--------------------------------------------------------------------------
(* scrape_all of the three adapters: one request per step *)

\* max_pages, the most entries of a response, and max_results
MaxPaginas == 3
MaxEntradas == 2
MaxResultados == 3

\* a feed entry that is relevant, one that is not, one without atom:title
ENTRADA_TIC ==
    [codigos_cpv |-> Lista_(<<<<"7", "2", "1", "0", "0", "0", "0", "0", "-", "6">>>>), titulo |-> Str(<<"w", "e", "B">>), resumen |-> None]
ENTRADA_NO_TIC ==
    [codigos_cpv |-> Lista_(<<<<"4", "5", "0", "0", "0", "0", "0", "0", "-", "7">>>>), titulo |-> Str(<<"o", "b", "r", "a">>),
     resumen |-> Str(<<"o", "b", "r", "a">>)]
ENTRADA_SIN_TITULO ==
    [codigos_cpv |-> Missing, titulo |-> None, resumen |-> Str(<<"o", "b", "r", "a">>)]
\* PLACSPScraper.parse_entry: entry.get('title', ''), entry.get('summary', '')
ENTRADA_TIC_FP ==
    [codigos_cpv |-> Missing, titulo |-> Str(<<"w", "e", "B">>), resumen |-> Str(<<>>)]
ENTRADA_NO_TIC_FP ==
    [codigos_cpv |-> Missing, titulo |-> Str(<<>>), resumen |-> Str(<<>>)]
FILA_TIC ==
    [codi_cpv |-> Str(<<"7", "2", "1", "0", "0", "0", "0", "0", "-", "6">>), denominacio |-> Str(<<"w", "e", "B">>),
     objecte_contracte |-> Missing]
FILA_NO_TIC ==
    [codi_cpv |-> Str(<<"4", "5", "0", "0", "0", "0", "0", "0", "-", "7">>), denominacio |-> Str(<<"o", "b", "r", "a">>),
     objecte_contracte |-> Missing]

EntradasDe(adaptador) ==
    IF adaptador = "PLACSPScraperV2"
    THEN {ENTRADA_TIC, ENTRADA_NO_TIC, ENTRADA_SIN_TITULO}
    ELSE IF adaptador = "PLACSPScraper" THEN {ENTRADA_TIC_FP, ENTRADA_NO_TIC_FP}
    ELSE {FILA_TIC, FILA_NO_TIC}

\* what a request can bring: a network or parse error, or the entries of the
\* page and whether it links to a next page
ERROR_DE_RED == <<"error">>
Respuestas(adaptador) ==
    {ERROR_DE_RED}
    \cup {<<"ok", e, n>> : e \in SeqHasta(EntradasDe(adaptador), MaxEntradas),
                           n \in BOOLEAN}

\* _mapear_a_modelo_liticia, on the keys the classifier reads
mapear_a_modelo_liticia(lic) ==
    [titulo |-> GetDefault(lic, "denominacio", Str(<<>>)),
     resumen |-> GetDefault(lic, "objecte_contracte", Str(<<>>)),
     cpv |-> GetDefault(lic, "codi_cpv", Str(<<>>))]

RECURSIVE FiltrarTic(_)
\* the loop of scrape_feed_page with filtrar_tic: the list it builds, or
\* <<"raise">> when es_licitacion_tic raises
FiltrarTic(entries) ==
    IF entries = <<>> THEN <<"lista", <<>>>>
    ELSE LET r == es_licitacion_tic(Head(entries))
             resto == FiltrarTic(Tail(entries))
         IN IF r = "raise" THEN <<"raise">>
            ELSE IF resto = <<"raise">> THEN <<"raise">>
            ELSE IF r = "True" THEN <<"lista", <<Head(entries)>> \o resto[2]>>
            ELSE resto

RECURSIVE YieldGencat(_, _)
\* the for loop of GencatScraper.scrape_all over a response: the records it
\* yields until total_procesadas reaches max_results
YieldGencat(filas, total_procesadas) ==
    IF filas = <<>> \/ total_procesadas >= MaxResultados THEN <<>>
    ELSE IF es_licitacion_tic_gencat(Head(filas)) = "True"
         THEN <<mapear_a_modelo_liticia(Head(filas))>>
              \o YieldGencat(Tail(filas), total_procesadas + 1)
         ELSE YieldGencat(Tail(filas), total_procesadas)

InitScrapeAll ==
    /\ pc = "scrape_all"
    /\ scraper \in {"PLACSPScraperV2", "PLACSPScraper", "GencatScraper"}
    /\ licitacion_tic = None /\ es_tic = ""
    /\ pagina = None /\ page = 0 /\ entregadas = <<>>
    /\ stream = <<>> /\ cutoff_date = 0 /\ utcoffset = 0 /\ recientes = <<>>
    /\ SinDup /\ SinBeat /\ SinFusion /\ SinHeap /\ SinDeteccion /\ SinIngesta

\* PLACSPScraperV2.scrape_all: one turn of `while url`, inside try/except
ScrapePaginaV2 ==
    /\ pc = "scrape_all"
    /\ scraper = "PLACSPScraperV2"
    /\ \E r \in Respuestas(scraper) :
        LET licitaciones_tic ==
                IF r = ERROR_DE_RED THEN <<"raise">> ELSE FiltrarTic(r[2])
        IN /\ pagina' = r
           /\ page' = page + 1
           /\ IF licitaciones_tic = <<"raise">>
              THEN /\ pc' = "fin"
                   /\ UNCHANGED entregadas
              ELSE /\ entregadas' = entregadas \o licitaciones_tic[2]
                   /\ pc' = IF page + 1 >= MaxPaginas \/ ~r[3] THEN "fin"
                            ELSE "scrape_all"
    /\ UNCHANGED <<scraper, licitacion_tic, es_tic, stream, cutoff_date,
                   utcoffset, recientes, varsDup, varsBeat, varsHeap, varsFusion,
                   varsDeteccion, varsIngesta>>

\* PLACSPScraper.scrape_all: the same turn with no try/except around it
ScrapePaginaPlacsp ==
    /\ pc = "scrape_all"
    /\ scraper = "PLACSPScraper"
    /\ \E r \in Respuestas(scraper) :
        LET licitaciones_tic ==
                IF r = ERROR_DE_RED THEN <<"raise">> ELSE FiltrarTic(r[2])
        IN /\ pagina' = r
           /\ page' = page + 1
           /\ IF licitaciones_tic = <<"raise">>
              THEN /\ pc' = "raise"
                   /\ UNCHANGED entregadas
              ELSE /\ entregadas' = entregadas \o licitaciones_tic[2]
                   /\ pc' = IF page + 1 >= MaxPaginas \/ ~r[3] THEN "fin"
                            ELSE "scrape_all"
    /\ UNCHANGED <<scraper, licitacion_tic, es_tic, stream, cutoff_date,
                   utcoffset, recientes, varsDup, varsBeat, varsHeap, varsFusion,
                   varsDeteccion, varsIngesta>>

\* GencatScraper.scrape_all: one turn of `while total_procesadas <
\* max_results`; the API has no next link, an empty response ends the loop
ScrapePaginaGencat ==
    /\ pc = "scrape_all"
    /\ scraper = "GencatScraper"
    /\ page < MaxPaginas
    /\ \E r \in Respuestas(scraper) :
        /\ pagina' = r
        /\ page' = page + 1
        /\ IF r = ERROR_DE_RED \/ r[2] = <<>>
           THEN /\ pc' = "fin"
                /\ UNCHANGED entregadas
           ELSE /\ entregadas' = entregadas \o YieldGencat(r[2], Len(entregadas))
                /\ pc' = IF Len(entregadas') >= MaxResultados THEN "fin"
                         ELSE "scrape_all"
    /\ UNCHANGED <<scraper, licitacion_tic, es_tic, stream, cutoff_date,
                   utcoffset, recientes, varsDup, varsBeat, varsHeap, varsFusion,
                   varsDeteccion, varsIngesta>>

NextScrapeAll == ScrapePaginaV2 \/ ScrapePaginaPlacsp \/ ScrapePaginaGencat
SpecScrapeAll == InitScrapeAll /\ [][NextScrapeAll]_vars

\* C18: in the three adapters, a network or parse error on a request ends
\* the stream normally: no exception reaches the consumer, no further page
\* is requested and the records yielded before stay delivered.
C18_ErrorDePaginaTerminaElStream ==
    [][pagina' = ERROR_DE_RED => (pc' = "fin" /\ entregadas' = entregadas)]_vars

--------------------------------------------------------------------------
(* scrape_recent of the two PLACSP adapters *)

\* the longest stream, and the latest wall-clock hour of a timestamp
MaxStream == 3
MaxHora == 4

\* the hours of a UTC offset, and the instant of an ISO string in UTC hours
HorasDe(offset) == IF offset = "+02:00" THEN 2 ELSE 1
InstanteDe(lic) ==
    lic.fecha_actualizacion[2][2] - HorasDe(lic.fecha_actualizacion[2][3])

\* the records scrape_all yields: relevant, with an atom:updated of Spanish
\* time, later ones first
Actualizadas ==
    {[fecha_actualizacion |-> Iso(h, o)] : h \in 1..MaxHora, o \in {"+02:00", "+01:00"}}
Descendente(seq) ==
    \A k \in 1..(Len(seq) - 1) : InstanteDe(seq[k]) >= InstanteDe(seq[k + 1])

\* cutoff_date = datetime.now() - timedelta(days=days), a naive datetime on
\* the clock of the host, which runs utcoffset hours ahead of UTC
InitScrapeRecent ==
    /\ pc = "scrape_recent"
    /\ scraper \in {"PLACSPScraperV2", "PLACSPScraper"}
    /\ stream \in {q \in SeqHasta(Actualizadas, MaxStream) : Descendente(q)}
    /\ cutoff_date = 3
    /\ utcoffset \in 0..2
    /\ recientes = <<>>
    /\ entregadas = <<>>
    /\ licitacion_tic = None /\ es_tic = "" /\ pagina = None /\ page = 0
    /\ SinDup /\ SinBeat /\ SinFusion /\ SinHeap /\ SinDeteccion /\ SinIngesta

\* fromisoformat accepts the string: None has no replace (AttributeError)
\* and any other text is no ISO 8601 date (ValueError)
EsFechaIso(fecha_str) ==
    /\ IsStr(fecha_str)
    /\ Len(fecha_str[2]) = 3
    /\ fecha_str[2][1] = "iso"

\* the handler of `except Exception`, without its append
descartar_sin_fecha(licitaciones_recientes, lic) == licitaciones_recientes
\* the handler of `except Exception`: the record is appended
incluir_sin_fecha(licitaciones_recientes, lic) ==
    Append(licitaciones_recientes, lic)

\* PLACSPScraperV2.scrape_recent, one turn of the loop: both offsets are cut
\* from the string and the naive datetime is compared with cutoff_date
ProcesarRecienteV2 ==
    /\ pc = "scrape_recent"
    /\ scraper = "PLACSPScraperV2"
    /\ stream # <<>>
    /\ LET fecha_str == Head(stream).fecha_actualizacion
       IN IF ~EsFechaIso(fecha_str)
          THEN recientes' = incluir_sin_fecha(recientes, Head(stream))
               /\ UNCHANGED pc
          ELSE IF FromIsoformat(fecha_str)[2] < cutoff_date
          THEN pc' = "fin" /\ UNCHANGED recientes
          ELSE recientes' = Append(recientes, Head(stream)) /\ UNCHANGED pc
    /\ entregadas' = Append(entregadas, Head(stream))
    /\ stream' = Tail(stream)
    /\ UNCHANGED <<scraper, licitacion_tic, es_tic, pagina, page, cutoff_date,
                   utcoffset, varsDup, varsBeat, varsHeap, varsFusion, varsDeteccion,
                   varsIngesta>>

\* PLACSPScraper.scrape_recent: only '+02:00' is cut; with another offset
\* fromisoformat gives an aware datetime, `fecha < cutoff_date` raises
\* TypeError and the handler appends the record
ProcesarRecientePlacsp ==
    /\ pc = "scrape_recent"
    /\ scraper = "PLACSPScraper"
    /\ stream # <<>>
    /\ LET fecha_str == Head(stream).fecha_actualizacion
       IN IF ~EsFechaIso(fecha_str)
          THEN recientes' = incluir_sin_fecha(recientes, Head(stream))
               /\ UNCHANGED pc
          ELSE IF fecha_str[2][3] = "+02:00"
                  /\ FromIsoformat(fecha_str)[2] < cutoff_date
          THEN pc' = "fin" /\ UNCHANGED recientes
          ELSE recientes' = Append(recientes, Head(stream)) /\ UNCHANGED pc
    /\ entregadas' = Append(entregadas, Head(stream))
    /\ stream' = Tail(stream)
    /\ UNCHANGED <<scraper, licitacion_tic, es_tic, pagina, page, cutoff_date,
                   utcoffset, varsDup, varsBeat, varsHeap, varsFusion, varsDeteccion,
                   varsIngesta>>

\* the stream is exhausted: `return licitaciones`
DevolverRecientes ==
    /\ pc = "scrape_recent"
    /\ stream = <<>>
    /\ pc' = "fin"
    /\ UNCHANGED <<varsScraper, varsDup, varsBeat, varsHeap, varsFusion, varsDeteccion,
                   varsIngesta>>

NextScrapeRecent ==
    \/ ProcesarRecienteV2
    \/ ProcesarRecientePlacsp
    \/ DevolverRecientes
SpecScrapeRecent == InitScrapeRecent /\ [][NextScrapeRecent]_vars

\* the records before the first one older than the cutoff
AntesDelCorte(todas) ==
    LET K == {k \in 1..Len(todas) : InstanteDe(todas[k]) < cutoff_date - utcoffset}
    IN IF K = {} THEN todas
       ELSE SubSeq(todas, 1, (CHOOSE k \in K : \A q \in K : k <= q) - 1)

\* C19: over a stream of relevant, parseable records in descending order of
\* their timestamps, scrape_recent returns exactly the records before the
\* first one whose timestamp is older than the cutoff.
C19_RecientesHastaElCorte ==
    pc = "fin" => recientes = AntesDelCorte(entregadas \o stream)

--------------------------------------------------------------------------
(* Properties of _similitud_presupuesto *)

\* the budgets of the pair that was compared
Presupuesto1 == Get(licitacion1, "presupuesto_base")
Presupuesto2 == Get(licitacion2, "presupuesto_base")

\* C20: the budget similarity is the same in both orders of its arguments,
\* None and 0 included, and is 1 when the two budgets are equal and not 0.
C20_SimilitudPresupuestoSimetrica ==
    pc = "fin" =>
        /\ FEq(similitud_presupuesto(Presupuesto1, Presupuesto2),
               similitud_presupuesto(Presupuesto2, Presupuesto1))
        /\ (/\ Presupuesto1 = Presupuesto2
            /\ Presupuesto1 # None
            /\ Presupuesto1[2] # 0)
               => FEq(similitud_presupuesto(Presupuesto1, Presupuesto2), FOne)

\* two different budgets, neither None nor 0, were compared
C20_Witness ==
    /\ pc = "fin"
    /\ Presupuesto1 # None /\ Presupuesto2 # None
    /\ Presupuesto1[2] # 0 /\ Presupuesto2[2] # 0
    /\ Presupuesto1 # Presupuesto2
    /\ FEq(similitud_presupuesto(Presupuesto1, Presupuesto2), <<19, 20>>)

--------------------------------------------------------------------------
(* The similarity scores over the budgets an adapter produces *)

Digitos == <<"0", "1", "2", "3", "4", "5", "6", "7", "8", "9">>
EsDigito(c) == \E k \in 1..10 : Digitos[k] = c
ValorDigito(c) == (CHOOSE k \in 1..10 : Digitos[k] = c) - 1

RECURSIVE ParseNatural(_)
ParseNatural(s) ==
    IF s = <<>> THEN 0
    ELSE 10 * ParseNatural(SubSeq(s, 1, Len(s) - 1)) + ValorDigito(s[Len(s)])

\* float(value): a sign and digits, or ValueError
EsNumerico(s) ==
    LET cifras == IF s # <<>> /\ Head(s) = "-" THEN Tail(s) ELSE s
    IN cifras # <<>> /\ \A k \in 1..Len(cifras) : EsDigito(cifras[k])

\* GencatScraper._parse_float
parse_float(value) ==
    IF value = None \/ value = Str(<<>>) THEN None
    ELSE IF ~EsNumerico(value[2]) THEN None
    ELSE IF Head(value[2]) = "-" THEN Num(0 - ParseNatural(Tail(value[2])))
    ELSE Num(ParseNatural(value[2]))

\* pressupost_licitacio_sense as the open-data API serves it
ValoresPressupost ==
    {None, Str(<<>>), Str(<<"n", "a">>), Str(<<"0">>), Str(<<"1", "9">>),
     Str(<<"2", "0">>), Str(<<"-", "1", "0">>), Str(<<"-", "2", "0">>)}
PresupuestosAdaptador == {parse_float(v) : v \in ValoresPressupost}

LicitacionesSimilitud ==
    [fuente : {Str("PLACSP"), Str("GENCAT")}, expediente : {None, EXP_A},
     titulo : {TIT_A, TIT_B}, presupuesto_base : PresupuestosAdaptador,
     fecha_publicacion : {None, Dt(0), Dt(5)}]

InitSimilitud ==
    /\ licitacion1 \in LicitacionesSimilitud
    /\ licitacion2 \in LicitacionesSimilitud
    /\ es_duplicada = FALSE
    /\ pc = "son_duplicadas"
    /\ SinBeat /\ SinHeap /\ SinFusion /\ SinDeteccion /\ SinIngesta /\ SinScraper

SpecSimilitud == InitSimilitud /\ [][NextDup]_vars

EnUnidad(x) == FLe(FZero, x) /\ FLe(x, FOne)
SinImporte(p) == p = None \/ p[2] = 0

\* C21: each of the four similarity scores lies in [0, 1], and the budget
\* similarity is 0 when either budget is None or 0; negative budgets included.
C21_PuntuacionesEnUnidad ==
    pc = "fin" =>
        /\ EnUnidad(sim_expediente(licitacion1, licitacion2))
        /\ EnUnidad(sim_titulo(licitacion1, licitacion2))
        /\ EnUnidad(sim_presupuesto(licitacion1, licitacion2))
        /\ EnUnidad(sim_fecha(licitacion1, licitacion2))
        /\ (SinImporte(Presupuesto1) \/ SinImporte(Presupuesto2))
               => FEq(sim_presupuesto(licitacion1, licitacion2), FZero)

--------------------------------------------------------------------------
(* celery beat and the worker of the scheduled tasks *)

\* the time of the week in ticks of 15 minutes, from Sunday 00:00
TicksPorHora == 4
TicksPorSemana == 7 * 24 * TicksPorHora
Minuto(t) == (t % TicksPorHora) * (60 \div TicksPorHora)
Hora(t) == (t \div TicksPorHora) % 24
DiaSemana(t) == t \div (24 * TicksPorHora)

\* task_time_limit = 30 * 60 seconds, in ticks
task_time_limit == (30 * TicksPorHora) \div 60

\* crontab(minute, hour, day_of_week): '*' is every value, '*/n' every n-th
Todos(hasta) == 0..hasta
Cada(n, hasta) == {v \in 0..hasta : v % n = 0}
crontab(minute, hour, day_of_week) ==
    [minute |-> minute, hour |-> hour, day_of_week |-> day_of_week]

beat_schedule ==
    <<[task |-> "scrape_placsp_recent",
       schedule |-> crontab({0}, Cada(3, 23), Todos(6))],
      [task |-> "scrape_placsp_full",
       schedule |-> crontab({0}, {3}, {0})],
      [task |-> "process_pending_documents",
       schedule |-> crontab({15}, Todos(23), Todos(6))],
      [task |-> "analyze_pending_licitaciones",
       schedule |-> crontab({30}, Cada(6, 23), Todos(6))],
      [task |-> "cleanup_old_licitaciones",
       schedule |-> crontab({0}, {4}, Todos(6))]>>

is_due(schedule, t) ==
    /\ Minuto(t) \in schedule.minute
    /\ Hora(t) \in schedule.hour
    /\ DiaSemana(t) \in schedule.day_of_week

\* the messages beat sends at time t, in the order of the schedule
RECURSIVE Enviadas(_, _)
Enviadas(t, k) ==
    IF k > Len(beat_schedule) THEN <<>>
    ELSE (IF is_due(beat_schedule[k].schedule, t)
          THEN <<[task |-> beat_schedule[k].task, enviado |-> t]>>
          ELSE <<>>) \o Enviadas(t, k + 1)

\* the worker processes of the deployment (celery worker --concurrency)
MaxConcurrency == 2

Edad(run) == (ahora - run.inicio) % TicksPorSemana

InitBeat ==
    /\ pc = "beat"
    /\ ahora \in 0..(TicksPorSemana - 1)
    /\ cola = <<>>
    /\ ejecutando = {}
    /\ concurrency \in 1..MaxConcurrency
    /\ SinDup /\ SinFusion /\ SinHeap /\ SinDeteccion /\ SinIngesta /\ SinScraper

\* 15 minutes pass and beat sends the entries that are due; a free worker
\* process takes a waiting message before that, and a run is killed when it
\* reaches task_time_limit
BeatTick ==
    /\ pc = "beat"
    /\ cola = <<>> \/ Cardinality(ejecutando) >= concurrency
    /\ \A run \in ejecutando : Edad(run) < task_time_limit
    /\ ahora' = (ahora + 1) % TicksPorSemana
    /\ cola' = cola \o Enviadas(ahora', 1)
    /\ UNCHANGED <<pc, ejecutando, concurrency, varsDup, varsHeap, varsFusion,
                   varsDeteccion, varsIngesta, varsScraper>>

\* a free worker process takes the oldest message and starts the task
WorkerInicia ==
    /\ pc = "beat"
    /\ cola # <<>>
    /\ Cardinality(ejecutando) < concurrency
    /\ ejecutando' =
           ejecutando \cup {[task |-> Head(cola).task,
                             enviado |-> Head(cola).enviado,
                             inicio |-> ahora]}
    /\ cola' = Tail(cola)
    /\ UNCHANGED <<pc, ahora, concurrency, varsDup, varsHeap, varsFusion,
                   varsDeteccion, varsIngesta, varsScraper>>

\* the task returns, raises, or is killed at task_time_limit
WorkerTermina ==
    /\ pc = "beat"
    /\ \E run \in ejecutando : ejecutando' = ejecutando \ {run}
    /\ UNCHANGED <<pc, ahora, cola, concurrency, varsDup, varsHeap, varsFusion,
                   varsDeteccion, varsIngesta, varsScraper>>

NextBeat == BeatTick \/ WorkerInicia \/ WorkerTermina
SpecBeat == InitBeat /\ [][NextBeat]_vars

\* the tasks that ingest PLACSP
IngestaPlacsp == {"scrape_placsp_recent", "scrape_placsp_full"}
EnCola == {cola[k] : k \in 1..Len(cola)}
Disparadas ==
    {<<m.task, m.enviado>> : m \in {x \in EnCola : x.task \in IngestaPlacsp}}
        \cup {<<run.task, run.enviado>> :
                 run \in {x \in ejecutando : x.task \in IngestaPlacsp}}

\* C22: two PLACSP ingestion runs are never triggered for the same instant,
\* and never execute at the same time.
C22_SinSolapeDeIngestas ==
    /\ \A d1, d2 \in Disparadas : d1 # d2 => d1[2] # d2[2]
    /\ \A r1, r2 \in ejecutando :
           (r1.task \in IngestaPlacsp /\ r2.task \in IngestaPlacsp) => r1 = r2

--------------------------------------------------------------------------
(* The pass of detectar_duplicados_en_lista *)

\* the indices the groups before group g hold
ReclamadosAntes(g) ==
    UNION {{grupos[h].ancla} \cup Rango(grupos[h].duplicados) : h \in 1..(g - 1)}

\* C23: over the sorted batch, the anchor of each group is the first record
\* not claimed by an earlier group, and the group's members are exactly
\* the later records not yet claimed that son_duplicadas accepts against the
\* anchor as the batch holds it, in their order; every record is in exactly
\* one group.
C23_UnaPasadaContraElAncla ==
    (pc = "fin_deteccion" /\ licitaciones # <<>>) =>
        LET entrada == ordenar(licitaciones)
            n == Len(entrada)
        IN /\ \A g \in 1..Len(grupos) :
                  LET a == grupos[g].ancla
                      D == grupos[g].duplicados
                  IN /\ a \in 1..n
                     /\ a \notin ReclamadosAntes(g)
                     /\ \A k \in 1..(a - 1) : k \in ReclamadosAntes(g)
                     /\ Rango(D) =
                            {j \in (a + 1)..n :
                                /\ j \notin ReclamadosAntes(g)
                                /\ son_duplicadas(entrada[a], entrada[j])}
                     /\ \A m \in 1..(Len(D) - 1) : D[m] < D[m + 1]
           /\ ReclamadosAntes(Len(grupos) + 1) = 1..n
           /\ Len(licitaciones_unicas) = Len(grupos)

\* a later anchor matches a record that an earlier anchor had claimed
C23_Witness ==
    /\ pc = "fin_deteccion"
    /\ \E g, h \in 1..Len(grupos) :
           /\ g < h
           /\ \E m \in 1..Len(grupos[g].duplicados) :
                  son_duplicadas(licitaciones_ordenadas[grupos[h].ancla],
                                 licitaciones_ordenadas[grupos[g].duplicados[m]])

--------------------------------------------------------------------------
(* The date similarity *)

Fecha1 == Get(licitacion1, "fecha_publicacion")
Fecha2 == Get(licitacion2, "fecha_publicacion")
\* the absolute gap between the two dates, in days
BrechaEnDias == Frac(Abs(Fecha1[2] - Fecha2[2]), UnidadesPorDia)
Ventana == <<UMBRAL_FECHA, 1>>
FDiv(x, y) == <<x[1] * y[2], x[2] * y[1]>>

\* C24: the date similarity is 0 when a date is missing, 0 when the gap
\* exceeds the window of 7 days, 1 - min(d, 7)/7 for a gap of d days, and
\* the same for both orders of the two dates.
C24_SimilitudFechaPorBrecha ==
    pc = "fin" =>
        IF Fecha1 = None \/ Fecha2 = None
        THEN FEq(similitud_fecha(Fecha1, Fecha2), FZero)
        ELSE /\ FEq(similitud_fecha(Fecha1, Fecha2),
                    FSub(FOne, FDiv(FMin(BrechaEnDias, Ventana), Ventana)))
             /\ ~FLe(BrechaEnDias, Ventana)
                    => FEq(similitud_fecha(Fecha1, Fecha2), FZero)
             /\ FEq(similitud_fecha(Fecha1, Fecha2),
                    similitud_fecha(Fecha2, Fecha1))

--------------------------------------------------------------------------
(* scrape_recent over records without a usable timestamp *)

\* atom:updated absent (None), empty, not a date, and two dates around the
\* cutoff
ActualizadasAbierto ==
    {[fecha_actualizacion |-> f] :
        f \in {None, Str(<<>>), Str(<<"n", "d">>), Iso(2, "+02:00"),
               Iso(4, "+02:00")}}

InitScrapeRecentAbierto ==
    /\ pc = "scrape_recent"
    /\ scraper \in {"PLACSPScraperV2", "PLACSPScraper"}
    /\ stream \in SeqHasta(ActualizadasAbierto, MaxStream)
    /\ cutoff_date = 3
    /\ utcoffset = 2
    /\ recientes = <<>>
    /\ entregadas = <<>>
    /\ licitacion_tic = None /\ es_tic = "" /\ pagina = None /\ page = 0
    /\ SinDup /\ SinBeat /\ SinFusion /\ SinHeap /\ SinDeteccion /\ SinIngesta

SpecScrapeRecentAbierto == InitScrapeRecentAbierto /\ [][NextScrapeRecent]_vars

SinFechaUtil(lic) == ~EsFechaIso(lic.fecha_actualizacion)
\* the first record with a date before cutoff_date, or one past the end
PrimerAntiguo(todas) ==
    LET K == {k \in 1..Len(todas) :
                 /\ ~SinFechaUtil(todas[k])
                 /\ FromIsoformat(todas[k].fecha_actualizacion)[2] < cutoff_date}
    IN IF K = {} THEN Len(todas) + 1 ELSE CHOOSE k \in K : \A q \in K : k <= q

\* C25: scrape_recent of PLACSPScraperV2 returns every record the stream
\* yielded before the first dated record older than the cutoff, the records
\* with a missing or unparseable timestamp among them, and none after it.
C25_SinFechaSeIncluye ==
    (pc = "fin" /\ scraper = "PLACSPScraperV2") =>
        LET todas == entregadas \o stream
        IN recientes = SubSeq(todas, 1, PrimerAntiguo(todas) - 1)

\* a record without a usable timestamp was returned, and a dated record
\* after it stopped the stream at the cutoff
C25_Witness ==
    /\ pc = "fin"
    /\ scraper = "PLACSPScraperV2"
    /\ recientes # <<>> /\ SinFechaUtil(recientes[Len(recientes)])
    /\ Len(entregadas) = Len(recientes) + 1
    /\ ~SinFechaUtil(entregadas[Len(entregadas)])

--------------------------------------------------------------------------
(* Symmetry of son_duplicadas *)

\* C26: son_duplicadas gives the same verdict for both orders of a pair,
\* and so does each of the four similarity scores.
C26_SonDuplicadasSimetrica ==
    pc = "fin" =>
        /\ son_duplicadas(licitacion1, licitacion2)
               = son_duplicadas(licitacion2, licitacion1)
        /\ FEq(sim_expediente(licitacion1, licitacion2),
               sim_expediente(licitacion2, licitacion1))
        /\ FEq(sim_titulo(licitacion1, licitacion2),
               sim_titulo(licitacion2, licitacion1))
        /\ FEq(sim_presupuesto(licitacion1, licitacion2),
               sim_presupuesto(licitacion2, licitacion1))
        /\ FEq(sim_fecha(licitacion1, licitacion2),
               sim_fecha(licitacion2, licitacion1))

--------------------------------------------------------------------------
(* The inputs of the merge engine after the call *)

\* the lists the dict holds have the contents they had before the call
ListasIntactas(lic) ==
    \A c \in ClavesLista : Lista(heap, lic, c) = Lista(heap0, lic, c)

\* C27: after fusionar_licitaciones the principal and the secondary, and
\* after detectar_duplicados_en_lista every record of the batch, hold the
\* documents and the additional sources they held before the call.
C27_EntradasSinCambios ==
    /\ pc = "fin_fusion" =>
           /\ ListasIntactas(licitacion_principal)
           /\ ListasIntactas(licitacion_secundaria)
    /\ pc = "fin_deteccion" =>
           \A k \in 1..Len(licitaciones) : ListasIntactas(licitaciones[k])

--------------------------------------------------------------------------
(* What detectar_duplicados_en_lista returns, against its input *)

\* every record of the batch came with no additional sources
SinFuentesAdicionales ==
    \A k \in 1..Len(licitaciones) :
        Lista(heap0, licitaciones[k], "fuentes_adicionales") = <<>>

FuentesDe(lic) == Lista(heap, lic, "fuentes_adicionales")

RECURSIVE EntradasHasta(_)
\* the additional-source entries of the first g records of the result
EntradasHasta(g) ==
    IF g = 0 THEN <<>>
    ELSE EntradasHasta(g - 1) \o FuentesDe(licitaciones_unicas[g])

Veces(seq, x) == Cardinality({k \in 1..Len(seq) : seq[k] = x})
Triples(lics) == [k \in 1..Len(lics) |-> Triple(lics[k])]

\* C28: on a batch without additional sources, every input record is found
\* in the result exactly as often as the batch holds it, as the principal of
\* a returned record or as an entry of a returned record's additional
\* sources; the returned records and their entries number as many as the
\* input.
C28_NiPierdeNiDuplica ==
    (pc = "fin_deteccion" /\ SinFuentesAdicionales) =>
        LET entradas == EntradasHasta(Len(licitaciones_unicas))
            principales == Triples(licitaciones_unicas)
        IN /\ \A k \in 1..Len(licitaciones) :
                  LET t == Triple(licitaciones[k])
                  IN Veces(Triples(licitaciones), t)
                         = Veces(principales, t) + Veces(entradas, t)
           /\ Len(licitaciones_unicas) + Len(entradas) = Len(licitaciones)

\* the first returned record absorbed two records of the batch
C28_Witness ==
    /\ pc = "fin_deteccion"
    /\ SinFuentesAdicionales
    /\ Len(licitaciones_unicas) >= 1
    /\ Len(FuentesDe(licitaciones_unicas[1])) = 2

--------------------------------------------------------------------------
(* The sources inside a group *)

\* the source tags of a returned record: its own, then those of its
\* additional sources
FuentesDelGrupo(lic) ==
    <<Triple(lic).fuente>>
        \o [k \in 1..Len(FuentesDe(lic)) |-> FuentesDe(lic)[k].fuente]

\* C29: on a batch without additional sources, the source tags of a returned
\* record and of the entries of its additional sources are pairwise
\* distinct.
C29_GrupoSinFuenteRepetida ==
    (pc = "fin_deteccion" /\ SinFuentesAdicionales) =>
        \A g \in 1..Len(licitaciones_unicas) :
            LET F == FuentesDelGrupo(licitaciones_unicas[g])
            IN \A m, q \in 1..Len(F) : m # q => F[m] # F[q]

--------------------------------------------------------------------------
(* The records of the adapters in detectar_duplicados_en_lista *)

\* PLACSPScraperV2.parse_entry, on the keys the merge engine reads: the dict
\* gets id_licitacion, titulo and resumen from the atom entry, expediente
\* and presupuesto_base from ContractFolderStatus, 'documentos' when the
\* entry lists any, and no 'fuente', 'url' or 'fecha_publicacion'
parse_entry(entry) ==
    Dict([id_licitacion |-> entry.id, fuente |-> Missing,
          expediente |-> entry.ContractFolderID, titulo |-> entry.title,
          url |-> Missing, fecha_publicacion |-> Missing],
         [SinCampos EXCEPT !["resumen"] = entry.summary,
                           !["presupuesto_base"] = entry.TaxExclusiveAmount],
         entry.documentos, Missing)

\* f"GENCAT-{expediente}"
IdGencat(expediente) ==
    IF expediente = EXP_A THEN Str("GENCAT-1") ELSE Str("GENCAT-2")

\* GencatScraper._mapear_a_modelo_liticia, on the same keys
mapear_gencat(fila) ==
    Dict([id_licitacion |-> IdGencat(fila.codi_expedient),
          fuente |-> Str("GENCAT"), expediente |-> fila.codi_expedient,
          titulo |-> fila.denominacio, url |-> Str("ug1"),
          fecha_publicacion |-> Dt(0)],
         CamposGencat(parse_float(fila.pressupost_licitacio_sense)),
         Lit(<<>>), Missing)

\* the entries of the PLACSP feed and the rows of the Gencat API
EntradasPlacsp ==
    [id : {Str("P-1"), Str("P-2")}, title : {TIT_A}, summary : {None},
     ContractFolderID : {EXP_A}, TaxExclusiveAmount : {Num(20)},
     documentos : {Missing, Lit(<<DOC_A1>>)}]
FilasGencat ==
    [codi_expedient : {EXP_A, EXP_B}, denominacio : {TIT_A},
     pressupost_licitacio_sense : {Str(<<"2", "0">>)}]
Producidas ==
    {parse_entry(e) : e \in EntradasPlacsp}
        \cup {mapear_gencat(f) : f \in FilasGencat}

InitAdaptadores ==
    /\ \E lote \in SeqHasta(Producidas, MaxLote) :
        /\ licitaciones = CargarLics(lote)
        /\ heap = CargarHeap(lote)
    /\ heap0 = heap
    /\ licitaciones_ordenadas = <<>>
    /\ licitaciones_unicas = <<>>
    /\ indices_procesados = {}
    /\ i = 0
    /\ grupos = <<>>
    /\ pc = "detectar_duplicados_en_lista"
    /\ SinDup /\ SinBeat /\ SinFusion /\ SinIngesta /\ SinScraper

SpecAdaptadores == InitAdaptadores /\ [][NextDeteccion]_vars

\* the record came from the PLACSP adapter
DePlacsp(lic) == lic.id_licitacion \in {e.id : e \in EntradasPlacsp}

\* C30: every record of an adapter carries the source tag of its adapter,
\* a PLACSP record has priority 0 in the clustering sort, and no GENCAT
\* record is ranked before a PLACSP record.
C30_FuenteDelAdaptador ==
    pc = "fin_deteccion" =>
        /\ \A k \in 1..Len(licitaciones) :
               IF DePlacsp(licitaciones[k])
               THEN /\ Get(licitaciones[k], "fuente") = Str("PLACSP")
                    /\ prioridad(licitaciones[k]) = PRIORIDAD_PLACSP
               ELSE Get(licitaciones[k], "fuente") = Str("GENCAT")
        /\ \A m, q \in 1..Len(licitaciones_ordenadas) :
               (/\ DePlacsp(licitaciones_ordenadas[m])
                /\ ~DePlacsp(licitaciones_ordenadas[q])) => m < q

====
